---- MODULE Spec2Model ----
(***************************************************************************)
(* XLORM: the asynchronous metrics pipeline (metrics.go), the asynchronous *)
(* log pipeline (asyncLogger), the sharded cache (shardedCache) and the    *)
(* rotating log file (rotatingFileHandler), and the transactions of        *)
(* DB.ExecTx and Table.BatchInsert, as state machines.                     *)
(***************************************************************************)
EXTENDS Integers, Sequences, FiniteSets, TLC

(***************************************************************************)
(* Bounds of the model.                                                    *)
(***************************************************************************)
\* largest ring buffer capacity tried (newRingBuffer(size), size in 1..MaxCap)
MaxCap == 3
\* items enqueued by the ring buffer used on its own
MaxItems == 5
\* recording calls the producers of the metrics pipeline make between them
MaxRecords == 3

\* capacity of asyncLogger.ch (the bufferSize given to NewAsyncLogger)
ChanCap == 1
\* capacity of asyncLogger.errCh: make(chan error, 100), scaled down
ErrChanCap == 1
\* Handle calls the callers of the log pipeline make between them
MaxLogs == 2

\* largest number of shards tried: newShardedCache takes runtime.NumCPU()
MaxShards == 2
\* capacity of each shard's LRU tier: defaultLRUCacheSize, scaled down
LruSize == 1
\* calls the tasks using the cache make between them
MaxCacheOps == 4
\* last value of the wall clock, in half days (the handler is built at 4)
MaxNow == 6
\* Close calls made on the rotating file handler
MaxFileCloses == 1

\* calls of ExecTx and BatchInsert made one after the other
MaxTxCalls == 2
\* most rows handed to one BatchInsert
MaxRows == 3
\* calls of SetDBMetricsEnable made on one DB
MaxSets == 2
\* Find and FindAll calls made on Table objects, and the most records a Count
\* query reports
MaxFinds == 2
MaxCount == 2
\* defaultBatchSize of BatchInsert
defaultBatchSize == 1000

\* the producer goroutines of the metrics pipeline
Producers == {"p1", "p2"}
OpTypes == {"", "select"}
Durations == {5}
RowCounts == {1}
\* the producer goroutine that also calls ResetDBMetrics
Resetters == {"p1"}
\* the goroutines that call asyncLogger.Handle, and those that call Close
Callers == {"h1", "h2"}
Closers == {"k1", "k2"}
\* the goroutines that use the cache, the keys and the values they use
Tasks == {"t1", "t2"}
Keys == {"a", "d"}
Values == {"v1", "v2"}
\* the goroutines that call rotatingFileHandler.Write
Writers == {"w1", "w2"}
\* the goroutine that calls SetDBMetricsEnable
Setters == {"s1"}

VARIABLES
    \* ---- metrics.go ----
    buffer,         \* asyncDBMetrics.buffer: the ringBuffer {buffer, size, head, tail, count}
    dbMetrics,      \* the embedded *dbMetrics aggregator
    droppedMetrics, \* asyncDBMetrics.droppedMetrics
    stopChan,       \* "open" / "closed"
    consumer,       \* the goroutine of start(): [pc, item]
    stopPc,         \* the caller of Stop(): "idle" / "waiting" / "returned"
    producer,       \* per producer goroutine: "idle" / "dropped" (inside recordMetric)
    calls,          \* recording calls made so far
    \* history of the metrics pipeline
    recorded,       \* closures handed to Enqueue, in the order the calls took effect
    failed,         \* ids of the closures whose Enqueue returned false
    overwritten,    \* ids of the closures destroyed by an overwriting Enqueue
    deqd,           \* ids returned by Dequeue, in order
    deqEmpty,       \* the last Dequeue reported empty (no Enqueue since)
    enqAfterDeq,    \* some Enqueue came after a Dequeue that returned an item
    atStop,         \* what Stop() saw: [idle, calls] when called, [metrics] when it returned
    \* ---- asyncLogger ----
    ch,             \* al.ch: the buffered records, oldest first
    chClosed,       \* close(al.ch) has run
    ctxDone,        \* al.cancel() has run
    closed,         \* al.closed
    total,          \* al.total
    dropped,        \* al.dropped
    errCh,          \* al.errCh: the buffered errors (0: "channel full", r: the sink's error for record r)
    errChClosed,    \* close(al.errCh) has run
    process,        \* the goroutine of process(): [pc, rec]
    drain,          \* the goroutine Close() starts: [pc, rec]
    caller,         \* per Handle caller: [pc, rec, res, startedClosed]
    closer,         \* per Close caller: [pc, res, second]
    nextRec,        \* number of the next record handed to Handle
    \* history of the log pipeline
    accepted,       \* records placed in al.ch
    acceptOrder,    \* the same records, in the order they were placed
    droppedRecs,    \* records for which Handle took the default branch
    sunk,           \* the sink's Handle invocations, in order: [rec, by]
    drainErrs,      \* records for which the sink returned an error to the drain goroutine
    \* ---- shardedCache ----
    shardCount,     \* c.shardCount
    shards,         \* c.shards: per index [m, hits, misses, mu]
    lruCaches,      \* c.lruCaches: per index the entries [key, value], most recently used first
    lruLocks,       \* c.lruLocks: per index an RWMutex [writer, readers]
    task,           \* per goroutine using the cache: [pc, op, key, val, idx, found, stats]
    cacheOps,       \* calls made on the cache so far
    \* history of the cache
    written,        \* per key: the value of the last Set that returned, "" once a
                    \* later Delete returned or a later Clear emptied the key's shard
    gets,           \* per shard: the Get calls that returned since the shard was last
                    \* cleared
    \* ---- rotatingFileHandler ----
    now,            \* the wall clock, in half days
    fs,             \* the log directory: name -> [mtime, isDir]
    openFiles,      \* the open *os.File values: number -> [name, linked]
    nextFd,         \* number of the next file opened
    currentFile,    \* r.currentFile: a file number, 0 for nil
    currentDate,    \* r.currentDate
    logRotationEnabled, \* r.logRotationEnabled
    maxAge,         \* r.maxAge, in half days
    writer,         \* per goroutine calling Write: [pc, sampled]
    closes,         \* Close calls made so far
    \* history of the handler
    lastWrite,      \* the last write attempted, by Write or by Handle: the clock at
                    \* its date check and at the write, r.currentDate and the file written
    swept,          \* the last retention sweep: the directory it found, its cutoff
    \* ---- transactions ----
    sqlTx,          \* the *sql.Tx of the last Begin: [done, rows inserted in it]
    table,          \* rows the database holds (committed)
    txCall,         \* the running ExecTx or BatchInsert call: its place and locals
    txCalls,        \* calls made so far
    \* history of the transactions
    txLog,          \* per transaction begun: the callback's outcome, the Exec, Commit
                    \* and Rollback calls made on it, the rows it persisted, the result
    \* ---- xlorm.go, config.go, pool.go: the goroutines of the DB ----
    dbCtx,          \* db.ctx: "ping", the context of newMySQL, or "user", one of WithContext
    poolStatsEnabled, \* db.poolStatsEnabled
    collector,      \* the collectPoolStats goroutines started: place, and why one returned
    keepAlive,      \* the startKeepAlive goroutine: its place
    poolStatsMutex, \* db.poolStatsMutex: who holds it, "" if free
    poolStatsStop,  \* db.poolStatsStop: "open" or "closed"
    poolStats,      \* the snapshot of pool.go: "nil", "zero" or "live"
    dbWg,           \* db.wg
    setter,         \* the callers of SetDBMetricsEnable: place, argument, the flag found
    sets,           \* calls of SetDBMetricsEnable made so far
    dbClose,        \* the caller of DB.Close: its place
    \* ---- table.go: one Table object of tablePool and the goroutine using it ----
    tab,            \* the Table: [hasTotal, total, limit], and whether it is in the pool
    tblCall,        \* the running Find/FindAll call: its place and error
    finds,          \* Find and FindAll calls made so far
    \* history of the Table
    tblLog,         \* the last FindAll: was HasTotal(true) in force, the count its Count
                    \* query got, did it succeed; what GetTotal returned since
    \* ---- asyncLogger.WithAttrs / WithGroup: the derived handler ----
    derived,        \* the handler WithAttrs returned: [made, closed, total, dropped]; it
                    \* shares al.ch, al.wg, al.ctx and al.cancel, its errCh is nil
    drainOwner,     \* the handler whose Close started the drain goroutine
    \* history of the derived handler
    via,            \* records handed to Handle of the derived handler
    \* ---- DB.Close called by several goroutines ----
    dbClosed,       \* db.closed
    dbCloser        \* per caller of DB.Close: its place, its result, and for the
                    \* claims: did it call Stop, did it begin after another call
                    \* had returned

mvars == <<buffer, dbMetrics, droppedMetrics, stopChan, consumer, stopPc, producer,
           calls, recorded, failed, overwritten, deqd, deqEmpty, enqAfterDeq, atStop>>

lvars == <<ch, chClosed, ctxDone, closed, total, dropped, errCh, errChClosed, process,
           drain, caller, closer, nextRec, accepted, acceptOrder, droppedRecs, sunk, drainErrs>>

cvars == <<shardCount, shards, lruCaches, lruLocks, task, cacheOps, written, gets>>

rvars == <<now, fs, openFiles, nextFd, currentFile, currentDate, logRotationEnabled,
           maxAge, writer, closes, lastWrite, swept>>

tvars == <<sqlTx, table, txCall, txCalls, txLog>>

pvars == <<dbCtx, poolStatsEnabled, collector, keepAlive, poolStatsMutex, poolStatsStop,
           poolStats, dbWg, setter, sets, dbClose>>

qvars == <<tab, tblCall, finds, tblLog>>

dvars == <<derived, drainOwner, via>>

xvars == <<dbClosed, dbCloser>>

vars == <<mvars, lvars, cvars, rvars, tvars, pvars, qvars, dvars, xvars>>

\* what the operations of one subsystem leave alone
nonMetrics == <<lvars, cvars, rvars, tvars, pvars, qvars, dvars, xvars>>
nonLog == <<mvars, cvars, rvars, tvars, pvars, qvars, dvars, xvars>>
nonCache == <<mvars, lvars, rvars, tvars, pvars, qvars, dvars, xvars>>
nonRot == <<mvars, lvars, cvars, tvars, pvars, qvars, dvars, xvars>>
nonTx == <<mvars, lvars, cvars, rvars, pvars, qvars, dvars, xvars>>
nonPool == <<mvars, lvars, cvars, rvars, tvars, qvars, dvars, xvars>>
nonTable == <<mvars, lvars, cvars, rvars, tvars, pvars, dvars, xvars>>
nonLogs == <<mvars, cvars, rvars, tvars, pvars, qvars, xvars>>

(***************************************************************************)
(* ringBuffer                                                              *)
(***************************************************************************)
\* a nil func(*dbMetrics): the content of a slot never written
NoItem == [id |-> 0, kind |-> "none", qt |-> "", d |-> 0]

newRingBuffer(size) ==
    [buffer |-> [i \in 0..(size - 1) |-> NoItem],
     size |-> size, head |-> 0, tail |-> 0, count |-> 0]

\* Enqueue that forgets to advance head when it overwrites
EnqueueKeepsHead(rb, item) ==
    IF rb.count = rb.size
    THEN [rb |-> [rb EXCEPT !.buffer[rb.tail] = item,
                            !.tail = (rb.tail + 1) % rb.size],
          ok |-> FALSE]
    ELSE [rb |-> [rb EXCEPT !.buffer[rb.tail] = item,
                            !.tail = (rb.tail + 1) % rb.size,
                            !.count = rb.count + 1],
          ok |-> TRUE]

\* Enqueue that rejects the new item when the ring is full
EnqueueRejectsNewest(rb, item) ==
    IF rb.count = rb.size
    THEN [rb |-> rb, ok |-> FALSE]
    ELSE [rb |-> [rb EXCEPT !.buffer[rb.tail] = item,
                            !.tail = (rb.tail + 1) % rb.size,
                            !.count = rb.count + 1],
          ok |-> TRUE]

\* Enqueue that counts the new item even when it overwrites
EnqueueCountsAlways(rb, item) ==
    [rb |-> [rb EXCEPT !.head = IF rb.count = rb.size THEN (rb.head + 1) % rb.size
                                ELSE rb.head,
                       !.buffer[rb.tail] = item,
                       !.tail = (rb.tail + 1) % rb.size,
                       !.count = rb.count + 1],
     ok |-> rb.count # rb.size]

\* Enqueue under rb.mu: the new ring and the bool returned
Enqueue(rb, item) ==
    IF rb.count = rb.size
    THEN [rb |-> [rb EXCEPT !.head = (rb.head + 1) % rb.size,
                            !.buffer[rb.tail] = item,
                            !.tail = (rb.tail + 1) % rb.size],
          ok |-> FALSE]
    ELSE [rb |-> [rb EXCEPT !.buffer[rb.tail] = item,
                            !.tail = (rb.tail + 1) % rb.size,
                            !.count = rb.count + 1],
          ok |-> TRUE]

\* Dequeue that takes the newest closure instead of the oldest
DequeueNewest(rb) ==
    IF rb.count = 0
    THEN [rb |-> rb, item |-> NoItem, ok |-> FALSE]
    ELSE [rb |-> [rb EXCEPT !.tail = (rb.tail + rb.size - 1) % rb.size,
                            !.count = rb.count - 1],
          item |-> rb.buffer[(rb.tail + rb.size - 1) % rb.size],
          ok |-> TRUE]

\* Dequeue under rb.mu: the new ring, the item and the bool returned
Dequeue(rb) ==
    IF rb.count = 0
    THEN [rb |-> rb, item |-> NoItem, ok |-> FALSE]
    ELSE [rb |-> [rb EXCEPT !.head = (rb.head + 1) % rb.size,
                            !.count = rb.count - 1],
          item |-> rb.buffer[rb.head],
          ok |-> TRUE]

\* the closures a ring holds, oldest first
Contents(rb) == [i \in 1..rb.count |-> rb.buffer[(rb.head + i - 1) % rb.size]]

(***************************************************************************)
(* dbMetrics                                                               *)
(***************************************************************************)
newDBMetrics ==
    [queryDurations |-> [t \in {} |-> <<>>],
     affectedRows |-> 0, totalQueries |-> 0, slowQueries |-> 0, errors |-> 0]

\* RecordQueryDuration that creates the key of a new type before it has a
\* duration to put there
MetricsRecordQueryDurationNewKeyEmpty(m, queryType, duration) ==
    LET qt == IF queryType = "" THEN "unknown" ELSE queryType
        durs == IF qt \in DOMAIN m.queryDurations
                THEN Append(m.queryDurations[qt], duration)
                ELSE <<>>
    IN [m EXCEPT !.totalQueries = m.totalQueries + 1,
                 !.queryDurations = [t \in DOMAIN m.queryDurations \cup {qt} |->
                                        IF t = qt THEN durs ELSE m.queryDurations[t]]]

MetricsRecordQueryDuration(m, queryType, duration) ==
    LET qt == IF queryType = "" THEN "unknown" ELSE queryType
        durs == IF qt \in DOMAIN m.queryDurations
                THEN Append(m.queryDurations[qt], duration)
                ELSE <<duration>>
    IN [m EXCEPT !.totalQueries = m.totalQueries + 1,
                 !.queryDurations = [t \in DOMAIN m.queryDurations \cup {qt} |->
                                        IF t = qt THEN durs ELSE m.queryDurations[t]]]

MetricsRecordAffectedRows(m, rows) == [m EXCEPT !.affectedRows = m.affectedRows + rows]

MetricsRecordError(m) == [m EXCEPT !.errors = m.errors + 1]

MetricsRecordSlowQuery(m) == [m EXCEPT !.slowQueries = m.slowQueries + 1]

\* the RecordError closure bound to the slow-query counter
ApplyClosureErrorAsSlow(m, c) ==
    CASE c.kind = "error" -> MetricsRecordSlowQuery(m)
      [] c.kind = "slow" -> MetricsRecordSlowQuery(m)
      [] c.kind = "query" -> MetricsRecordQueryDuration(m, c.qt, c.d)
      [] OTHER -> m

\* metricFunc(am.dbMetrics): what each closure built by the recording methods does
ApplyClosure(m, c) ==
    CASE c.kind = "error" -> MetricsRecordError(m)
      [] c.kind = "slow" -> MetricsRecordSlowQuery(m)
      [] c.kind = "query" -> MetricsRecordQueryDuration(m, c.qt, c.d)
      [] OTHER -> m

(***************************************************************************)
(* asyncDBMetrics                                                          *)
(***************************************************************************)
InitMetricsWith(sizes) ==
    /\ buffer \in {newRingBuffer(s) : s \in sizes}
    /\ dbMetrics = newDBMetrics
    /\ droppedMetrics = 0
    /\ stopChan = "open"
    /\ consumer = [pc |-> "select", item |-> NoItem]
    /\ stopPc = "idle"
    /\ producer = [p \in Producers |-> "idle"]
    /\ calls = 0
    /\ recorded = <<>>
    /\ failed = {}
    /\ overwritten = {}
    /\ deqd = <<>>
    /\ deqEmpty = FALSE
    /\ enqAfterDeq = FALSE
    /\ atStop = [idle |-> FALSE, calls |-> 0, metrics |-> newDBMetrics]

\* the effect of one Enqueue call on the ring and on the history
DoEnqueue(c) ==
    LET r == Enqueue(buffer, c)
    IN /\ buffer' = r.rb
       /\ recorded' = Append(recorded, c)
       /\ failed' = IF r.ok THEN failed ELSE failed \cup {c.id}
       /\ overwritten' = IF r.ok THEN overwritten
                         ELSE overwritten \cup {buffer.buffer[buffer.tail].id}
       /\ deqEmpty' = FALSE
       /\ enqAfterDeq' = (enqAfterDeq \/ Len(deqd) > 0)

\* the effect of one Dequeue call on the ring and on the history
DoDequeue ==
    LET r == Dequeue(buffer)
    IN /\ buffer' = r.rb
       /\ deqd' = IF r.ok THEN Append(deqd, r.item.id) ELSE deqd
       /\ deqEmpty' = ~r.ok
       /\ UNCHANGED <<recorded, failed, overwritten, enqAfterDeq>>

\* recordMetric: Enqueue; a false result leads to droppedMetrics.Add(1)
recordMetric(p, c) ==
    /\ producer[p] = "idle"
    /\ calls < MaxRecords
    /\ calls' = calls + 1
    /\ DoEnqueue(c)
    /\ producer' = [producer EXCEPT ![p] = IF Enqueue(buffer, c).ok THEN "idle" ELSE "dropped"]
    /\ UNCHANGED <<dbMetrics, droppedMetrics, stopChan, consumer, stopPc, deqd, atStop>>
    /\ UNCHANGED nonMetrics

NextId == Len(recorded) + 1

RecordError(p) ==
    recordMetric(p, [id |-> NextId, kind |-> "error", qt |-> "", d |-> 0])

RecordSlowQuery(p) ==
    recordMetric(p, [id |-> NextId, kind |-> "slow", qt |-> "", d |-> 0])

RecordQueryDuration(p) ==
    \E qt \in OpTypes, d \in Durations :
        recordMetric(p, [id |-> NextId, kind |-> "query", qt |-> qt, d |-> d])

\* recordMetric, second half: am.droppedMetrics.Add(1), then the method returns
CountDropped(p) ==
    /\ producer[p] = "dropped"
    /\ droppedMetrics' = droppedMetrics + 1
    /\ producer' = [producer EXCEPT ![p] = "idle"]
    /\ UNCHANGED <<buffer, dbMetrics, stopChan, consumer, stopPc, calls,
                   recorded, failed, overwritten, deqd, deqEmpty, enqAfterDeq, atStop>>
    /\ UNCHANGED nonMetrics

\* asyncDBMetrics has no RecordAffectedRows of its own: the call resolves to the
\* embedded dbMetrics.RecordAffectedRows and runs on the calling goroutine
RecordAffectedRows(p) ==
    /\ producer[p] = "idle"
    /\ calls < MaxRecords
    /\ calls' = calls + 1
    /\ \E rows \in RowCounts : dbMetrics' = MetricsRecordAffectedRows(dbMetrics, rows)
    /\ UNCHANGED <<buffer, droppedMetrics, stopChan, consumer, stopPc, producer,
                   recorded, failed, overwritten, deqd, deqEmpty, enqAfterDeq, atStop>>
    /\ UNCHANGED nonMetrics

\* the atomic counters ResetDBMetrics stores 0 to, in its order, and the
\* places of a caller that has still to store to them
ResetFields == <<"affectedRows", "totalQueries", "slowQueries", "errors">>
ResetPcs == <<"resetRows", "resetTotal", "resetSlow", "resetErrors">>

\* ResetDBMetrics that clears the dropped counter as well
ResetClearsDropped(p) ==
    /\ producer[p] = "idle"
    /\ calls < MaxRecords
    /\ calls' = calls + 1
    /\ dbMetrics' = [dbMetrics EXCEPT !.queryDurations = newDBMetrics.queryDurations]
    /\ droppedMetrics' = 0
    /\ producer' = [producer EXCEPT ![p] = ResetPcs[1]]
    /\ UNCHANGED <<buffer, stopChan, consumer, stopPc,
                   recorded, failed, overwritten, deqd, deqEmpty, enqAfterDeq, atStop>>
    /\ UNCHANGED nonMetrics

\* ResetDBMetrics, promoted from the embedded *dbMetrics, runs on the calling
\* goroutine; first statement: m.queryDurations = sync.Map{}. The assignment
\* is not synchronised with the consumer: when the consumer is inside
\* dbMetrics.RecordQueryDuration it may fall between that call's Load and its
\* Store, which then puts the durations it loaded, extended, in the new map.
ResetDBMetrics(p) ==
    /\ producer[p] = "idle"
    /\ calls < MaxRecords
    /\ calls' = calls + 1
    /\ \/ /\ dbMetrics' = [dbMetrics EXCEPT !.queryDurations = newDBMetrics.queryDurations]
          /\ UNCHANGED consumer
       \/ /\ consumer.pc = "apply"
          /\ consumer.item.kind = "query"
          /\ LET m == MetricsRecordQueryDuration(dbMetrics, consumer.item.qt, consumer.item.d)
                 qt == IF consumer.item.qt = "" THEN "unknown" ELSE consumer.item.qt
             IN dbMetrics' = [m EXCEPT !.queryDurations =
                                  [t \in {qt} |-> m.queryDurations[qt]]]
          /\ consumer' = [pc |-> "select", item |-> NoItem]
    /\ producer' = [producer EXCEPT ![p] = ResetPcs[1]]
    /\ UNCHANGED <<buffer, droppedMetrics, stopChan, stopPc,
                   recorded, failed, overwritten, deqd, deqEmpty, enqAfterDeq, atStop>>
    /\ UNCHANGED nonMetrics

\* ResetDBMetrics, the following statements: Store(0) to one counter each
ResetStore(p) ==
    /\ \E i \in 1..Len(ResetPcs) :
          /\ producer[p] = ResetPcs[i]
          /\ dbMetrics' = [dbMetrics EXCEPT ![ResetFields[i]] = 0]
          /\ producer' = [producer EXCEPT ![p] = IF i = Len(ResetPcs) THEN "idle"
                                                 ELSE ResetPcs[i + 1]]
    /\ UNCHANGED <<buffer, droppedMetrics, stopChan, consumer, stopPc, calls,
                   recorded, failed, overwritten, deqd, deqEmpty, enqAfterDeq, atStop>>
    /\ UNCHANGED nonMetrics

\* start(): the select of the consumer loop; a closed stopChan is the only
\* ready case, the default runs only while stopChan is open
ConsumerSelect ==
    /\ consumer.pc = "select"
    /\ consumer' = [consumer EXCEPT !.pc = IF stopChan = "closed" THEN "exited" ELSE "dequeue"]
    /\ UNCHANGED <<buffer, dbMetrics, droppedMetrics, stopChan, stopPc, producer, calls,
                   recorded, failed, overwritten, deqd, deqEmpty, enqAfterDeq, atStop>>
    /\ UNCHANGED nonMetrics

\* start(): am.buffer.Dequeue(); on empty, sleep and loop
ConsumerDequeue ==
    /\ consumer.pc = "dequeue"
    /\ DoDequeue
    /\ consumer' = IF Dequeue(buffer).ok
                   THEN [pc |-> "apply", item |-> Dequeue(buffer).item]
                   ELSE [pc |-> "select", item |-> NoItem]
    /\ UNCHANGED <<dbMetrics, droppedMetrics, stopChan, stopPc, producer, calls, atStop>>
    /\ UNCHANGED nonMetrics

\* start(): metricFunc(am.dbMetrics)
ConsumerApply ==
    /\ consumer.pc = "apply"
    /\ dbMetrics' = ApplyClosure(dbMetrics, consumer.item)
    /\ consumer' = [pc |-> "select", item |-> NoItem]
    /\ UNCHANGED <<buffer, droppedMetrics, stopChan, stopPc, producer, calls,
                   recorded, failed, overwritten, deqd, deqEmpty, enqAfterDeq, atStop>>
    /\ UNCHANGED nonMetrics

\* Stop(): close(am.stopChan)
StopClose ==
    /\ stopPc = "idle"
    /\ stopChan' = "closed"
    /\ stopPc' = "waiting"
    /\ atStop' = [atStop EXCEPT !.idle = (\A p \in Producers : producer[p] = "idle"),
                                !.calls = calls]
    /\ UNCHANGED <<buffer, dbMetrics, droppedMetrics, consumer, producer, calls,
                   recorded, failed, overwritten, deqd, deqEmpty, enqAfterDeq>>
    /\ UNCHANGED nonMetrics

\* Stop(): am.wg.Wait() returns once the consumer has run its deferred wg.Done()
StopWait ==
    /\ stopPc = "waiting"
    /\ consumer.pc = "exited"
    /\ stopPc' = "returned"
    /\ atStop' = [atStop EXCEPT !.metrics = dbMetrics]
    /\ UNCHANGED <<buffer, dbMetrics, droppedMetrics, stopChan, consumer, producer, calls,
                   recorded, failed, overwritten, deqd, deqEmpty, enqAfterDeq>>
    /\ UNCHANGED nonMetrics

(***************************************************************************)
(* asyncLogger                                                             *)
(***************************************************************************)
NoResult == [kind |-> "none", errs |-> <<>>]

\* no handler has been derived yet
NoDerived == [made |-> FALSE, closed |-> FALSE, total |-> 0, dropped |-> 0]

\* NewAsyncLogger: the channels are empty and open, process() is running
InitLog ==
    /\ ch = <<>>
    /\ chClosed = FALSE
    /\ ctxDone = FALSE
    /\ closed = FALSE
    /\ total = 0
    /\ dropped = 0
    /\ errCh = <<>>
    /\ errChClosed = FALSE
    /\ process = [pc |-> "select", rec |-> 0]
    /\ drain = [pc |-> "none", rec |-> 0]
    /\ caller = [c \in Callers |->
                    [pc |-> "idle", rec |-> 0, res |-> "none", startedClosed |-> FALSE]]
    /\ closer = [k \in Closers |-> [pc |-> "idle", res |-> NoResult, second |-> FALSE]]
    /\ nextRec = 1
    /\ accepted = {}
    /\ acceptOrder = <<>>
    /\ droppedRecs = {}
    /\ sunk = <<>>
    /\ drainErrs = {}
    /\ derived = NoDerived
    /\ drainOwner = "parent"
    /\ via = {}

\* a non-blocking send on a channel of capacity cap: the new content
TrySend(q, cap, x) == IF Len(q) < cap THEN Append(q, x) ELSE q

\* Handle that does not look at al.closed
HandleStartNoCheck(c) ==
    /\ caller[c].pc = "idle"
    /\ nextRec <= MaxLogs
    /\ nextRec' = nextRec + 1
    /\ caller' = [caller EXCEPT ![c] =
                    [pc |-> "select", rec |-> nextRec, res |-> "none",
                     startedClosed |-> closed]]
    /\ UNCHANGED <<ch, chClosed, ctxDone, closed, total, dropped, errCh, errChClosed,
                   process, drain, closer, accepted, acceptOrder, droppedRecs, sunk, drainErrs>>
    /\ UNCHANGED nonLog

\* Handle: the call starts with al.closed.Load(); a closed logger refuses the record
HandleStart(c) ==
    /\ caller[c].pc = "idle"
    /\ nextRec <= MaxLogs
    /\ nextRec' = nextRec + 1
    /\ caller' = [caller EXCEPT ![c] =
                    IF closed
                    THEN [pc |-> "idle", rec |-> nextRec, res |-> "closed",
                          startedClosed |-> TRUE]
                    ELSE [pc |-> "select", rec |-> nextRec, res |-> "none",
                          startedClosed |-> FALSE]]
    /\ UNCHANGED <<ch, chClosed, ctxDone, closed, total, dropped, errCh, errChClosed,
                   process, drain, closer, accepted, acceptOrder, droppedRecs, sunk, drainErrs>>
    /\ UNCHANGED nonLog

\* Handle: case al.ch <- r, the channel being open with room
HandleSend(c) ==
    /\ caller[c].pc = "select"
    /\ ~chClosed
    /\ Len(ch) < ChanCap
    /\ ch' = Append(ch, caller[c].rec)
    /\ accepted' = accepted \cup {caller[c].rec}
    /\ acceptOrder' = Append(acceptOrder, caller[c].rec)
    /\ caller' = [caller EXCEPT ![c].pc = "sent"]
    /\ UNCHANGED <<chClosed, ctxDone, closed, total, dropped, errCh, errChClosed,
                   process, drain, closer, nextRec, droppedRecs, sunk, drainErrs>>
    /\ UNCHANGED nonLog

\* Handle: case al.ch <- r on a closed channel: the send panics
HandleSendClosed(c) ==
    /\ caller[c].pc = "select"
    /\ chClosed
    /\ caller' = [caller EXCEPT ![c].pc = "panicked", ![c].res = "panic"]
    /\ UNCHANGED <<ch, chClosed, ctxDone, closed, total, dropped, errCh, errChClosed,
                   process, drain, closer, nextRec, accepted, acceptOrder, droppedRecs, sunk, drainErrs>>
    /\ UNCHANGED nonLog

\* Handle: case <-al.ctx.Done(): return al.ctx.Err()
HandleCtxDone(c) ==
    /\ caller[c].pc = "select"
    /\ ctxDone
    /\ caller' = [caller EXCEPT ![c].pc = "idle", ![c].res = "canceled"]
    /\ UNCHANGED <<ch, chClosed, ctxDone, closed, total, dropped, errCh, errChClosed,
                   process, drain, closer, nextRec, accepted, acceptOrder, droppedRecs, sunk, drainErrs>>
    /\ UNCHANGED nonLog

\* the default branch taken although the channel has room
HandleFullAnyTime(c) ==
    /\ caller[c].pc = "select"
    /\ ~chClosed
    /\ ~ctxDone
    /\ droppedRecs' = droppedRecs \cup {caller[c].rec}
    /\ caller' = [caller EXCEPT ![c].pc = "default"]
    /\ UNCHANGED <<ch, chClosed, ctxDone, closed, total, dropped, errCh, errChClosed,
                   process, drain, closer, nextRec, accepted, acceptOrder, sunk, drainErrs>>
    /\ UNCHANGED nonLog

\* Handle: default, taken only when no case of the select is ready
HandleFull(c) ==
    /\ caller[c].pc = "select"
    /\ ~chClosed
    /\ ~ctxDone
    /\ Len(ch) >= ChanCap
    /\ droppedRecs' = droppedRecs \cup {caller[c].rec}
    /\ caller' = [caller EXCEPT ![c].pc = "default"]
    /\ UNCHANGED <<ch, chClosed, ctxDone, closed, total, dropped, errCh, errChClosed,
                   process, drain, closer, nextRec, accepted, acceptOrder, sunk, drainErrs>>
    /\ UNCHANGED nonLog

\* Handle after the record was sent: al.total.Add(1); return nil
HandleSent(c) ==
    /\ caller[c].pc = "sent"
    /\ total' = total + 1
    /\ caller' = [caller EXCEPT ![c].pc = "idle", ![c].res = "nil"]
    /\ UNCHANGED <<ch, chClosed, ctxDone, closed, dropped, errCh, errChClosed,
                   process, drain, closer, nextRec, accepted, acceptOrder, droppedRecs, sunk, drainErrs>>
    /\ UNCHANGED nonLog

\* the default branch counting the dropped record in al.total
HandleDefaultCountsTotal(c) ==
    /\ caller[c].pc = "default"
    /\ total' = total + 1
    /\ IF errChClosed
       THEN /\ caller' = [caller EXCEPT ![c].pc = "panicked", ![c].res = "panic"]
            /\ errCh' = errCh
       ELSE /\ caller' = [caller EXCEPT ![c].pc = "idle", ![c].res = "nil"]
            /\ errCh' = TrySend(errCh, ErrChanCap, 0)
    /\ UNCHANGED <<ch, chClosed, ctxDone, closed, dropped, errChClosed,
                   process, drain, closer, nextRec, accepted, acceptOrder, droppedRecs, sunk, drainErrs>>
    /\ UNCHANGED nonLog

\* Handle in the default branch: al.dropped.Add(1), the non-blocking report on
\* al.errCh (a send on the closed errCh panics), return nil
HandleDefault(c) ==
    /\ caller[c].pc = "default"
    /\ dropped' = dropped + 1
    /\ IF errChClosed
       THEN /\ caller' = [caller EXCEPT ![c].pc = "panicked", ![c].res = "panic"]
            /\ errCh' = errCh
       ELSE /\ caller' = [caller EXCEPT ![c].pc = "idle", ![c].res = "nil"]
            /\ errCh' = TrySend(errCh, ErrChanCap, 0)
    /\ UNCHANGED <<ch, chClosed, ctxDone, closed, total, errChClosed,
                   process, drain, closer, nextRec, accepted, acceptOrder, droppedRecs, sunk, drainErrs>>
    /\ UNCHANGED nonLog

\* process(): case r, ok := <-al.ch with a record buffered; the sink's Handle is invoked
ProcessRecv ==
    /\ process.pc = "select"
    /\ Len(ch) > 0
    /\ ch' = Tail(ch)
    /\ process' = [pc |-> "handling", rec |-> Head(ch)]
    /\ sunk' = Append(sunk, [rec |-> Head(ch), by |-> "process"])
    /\ UNCHANGED <<chClosed, ctxDone, closed, total, dropped, errCh, errChClosed,
                   drain, caller, closer, nextRec, accepted, acceptOrder, droppedRecs, drainErrs>>
    /\ UNCHANGED nonLog

\* process(): al.baseHandler.Handle returns, its error goes to al.errCh unless full
ProcessSinkReturn ==
    /\ process.pc = "handling"
    /\ \E failing \in BOOLEAN :
          errCh' = IF failing THEN TrySend(errCh, ErrChanCap, process.rec) ELSE errCh
    /\ process' = [pc |-> "select", rec |-> 0]
    /\ UNCHANGED <<ch, chClosed, ctxDone, closed, total, dropped, errChClosed,
                   drain, caller, closer, nextRec, accepted, acceptOrder, droppedRecs, sunk, drainErrs>>
    /\ UNCHANGED nonLog

\* process(): the receive reports a closed and empty channel, or the context is
\* done; the deferred close(al.errCh) and al.wg.Done() run
ProcessExit ==
    /\ process.pc = "select"
    /\ (chClosed /\ ch = <<>>) \/ ctxDone
    /\ process' = [pc |-> "exited", rec |-> 0]
    /\ errChClosed' = TRUE
    /\ UNCHANGED <<ch, chClosed, ctxDone, closed, total, dropped, errCh,
                   drain, caller, closer, nextRec, accepted, acceptOrder, droppedRecs, sunk, drainErrs>>
    /\ UNCHANGED nonLog

\* Close that goes straight to the CompareAndSwap
CloseLoadNoCheck(k) ==
    /\ closer[k].pc = "idle"
    /\ closer' = [closer EXCEPT ![k].pc = "cas",
                                ![k].second = (\E j \in Closers : closer[j].pc = "returned")]
    /\ UNCHANGED <<ch, chClosed, ctxDone, closed, total, dropped, errCh, errChClosed,
                   process, drain, caller, nextRec, accepted, acceptOrder, droppedRecs, sunk, drainErrs>>
    /\ UNCHANGED nonLog

\* Close: if al.closed.Load() { return nil }
CloseLoad(k) ==
    /\ closer[k].pc = "idle"
    /\ closer' = [closer EXCEPT ![k] =
                    [pc |-> IF closed THEN "returned" ELSE "cas",
                     res |-> IF closed THEN [kind |-> "nil", errs |-> <<>>] ELSE NoResult,
                     second |-> (\E j \in Closers : closer[j].pc = "returned")]]
    /\ UNCHANGED <<ch, chClosed, ctxDone, closed, total, dropped, errCh, errChClosed,
                   process, drain, caller, nextRec, accepted, acceptOrder, droppedRecs, sunk, drainErrs>>
    /\ UNCHANGED nonLog

\* Close: if !al.closed.CompareAndSwap(false, true) { return errors.New(...) }
CloseCas(k) ==
    /\ closer[k].pc = "cas"
    /\ closed' = TRUE
    /\ closer' = [closer EXCEPT ![k] =
                    IF closed
                    THEN [@ EXCEPT !.pc = "returned",
                                   !.res = [kind |-> "closed", errs |-> <<>>]]
                    ELSE [@ EXCEPT !.pc = "closeCh"]]
    /\ UNCHANGED <<ch, chClosed, ctxDone, total, dropped, errCh, errChClosed,
                   process, drain, caller, nextRec, accepted, acceptOrder, droppedRecs, sunk, drainErrs>>
    /\ UNCHANGED nonLog

\* Close: close(al.ch); closing a closed channel panics
CloseChan(k) ==
    /\ closer[k].pc = "closeCh"
    /\ chClosed' = TRUE
    /\ closer' = [closer EXCEPT ![k] =
                    IF chClosed
                    THEN [@ EXCEPT !.pc = "panicked",
                                   !.res = [kind |-> "panic", errs |-> <<>>]]
                    ELSE [@ EXCEPT !.pc = "cancel"]]
    /\ UNCHANGED <<ch, ctxDone, closed, total, dropped, errCh, errChClosed,
                   process, drain, caller, nextRec, accepted, acceptOrder, droppedRecs, sunk, drainErrs>>
    /\ UNCHANGED nonLog

\* Close: al.cancel()
CloseCancel(k) ==
    /\ closer[k].pc = "cancel"
    /\ ctxDone' = TRUE
    /\ closer' = [closer EXCEPT ![k].pc = "spawn"]
    /\ UNCHANGED <<ch, chClosed, closed, total, dropped, errCh, errChClosed,
                   process, drain, caller, nextRec, accepted, acceptOrder, droppedRecs, sunk, drainErrs>>
    /\ UNCHANGED nonLog

\* Close: go func() {...}(), then the select on done and time.After
CloseSpawn(k) ==
    /\ closer[k].pc = "spawn"
    /\ drain' = [pc |-> "loop", rec |-> 0]
    /\ closer' = [closer EXCEPT ![k].pc = "wait"]
    /\ UNCHANGED <<ch, chClosed, ctxDone, closed, total, dropped, errCh, errChClosed,
                   process, caller, nextRec, accepted, acceptOrder, droppedRecs, sunk, drainErrs>>
    /\ UNCHANGED nonLog

\* the goroutine of Close: case r, ok := <-al.ch with a record buffered; the
\* sink's Handle is invoked
DrainRecv ==
    /\ drain.pc = "loop"
    /\ Len(ch) > 0
    /\ ch' = Tail(ch)
    /\ drain' = [pc |-> "handling", rec |-> Head(ch)]
    /\ sunk' = Append(sunk, [rec |-> Head(ch), by |-> "drain"])
    /\ UNCHANGED <<chClosed, ctxDone, closed, total, dropped, errCh, errChClosed,
                   process, caller, closer, nextRec, accepted, acceptOrder, droppedRecs, drainErrs>>
    /\ UNCHANGED nonLog

\* the goroutine of Close: _ = al.baseHandler.Handle(ctx, r)
DrainSinkReturn ==
    /\ drain.pc = "handling"
    /\ \E failing \in BOOLEAN :
          drainErrs' = IF failing THEN drainErrs \cup {drain.rec} ELSE drainErrs
    /\ drain' = [pc |-> "loop", rec |-> 0]
    /\ UNCHANGED <<ch, chClosed, ctxDone, closed, total, dropped, errCh, errChClosed,
                   process, caller, closer, nextRec, accepted, acceptOrder, droppedRecs, sunk>>
    /\ UNCHANGED nonLog

\* the drain loop giving up at once, as if its default case were always taken
DrainEndAtOnce ==
    /\ drain.pc = "loop"
    /\ drain' = [pc |-> "waitwg", rec |-> 0]
    /\ UNCHANGED <<ch, chClosed, ctxDone, closed, total, dropped, errCh, errChClosed,
                   process, caller, closer, nextRec, accepted, acceptOrder, droppedRecs, sunk, drainErrs>>
    /\ UNCHANGED nonLog

\* the goroutine of Close: the loop ends when nothing is buffered (the receive
\* reports the closed channel empty, or the default case runs)
DrainEnd ==
    /\ drain.pc = "loop"
    /\ ch = <<>>
    /\ drain' = [pc |-> "waitwg", rec |-> 0]
    /\ UNCHANGED <<ch, chClosed, ctxDone, closed, total, dropped, errCh, errChClosed,
                   process, caller, closer, nextRec, accepted, acceptOrder, droppedRecs, sunk, drainErrs>>
    /\ UNCHANGED nonLog

\* the goroutine of Close, deferred: al.wg.Wait(); done <- struct{}{}
DrainJoin ==
    /\ drain.pc = "waitwg"
    /\ process.pc = "exited"
    /\ drain' = [pc |-> "finished", rec |-> 0]
    /\ UNCHANGED <<ch, chClosed, ctxDone, closed, total, dropped, errCh, errChClosed,
                   process, caller, closer, nextRec, accepted, acceptOrder, droppedRecs, sunk, drainErrs>>
    /\ UNCHANGED nonLog

\* collectErrors that reports no error whatever is buffered
collectErrorsNone(q) == [kind |-> "collected", errs |-> <<>>]

\* collectErrors: every error buffered in al.errCh, joined (none: nil)
collectErrors(q) == [kind |-> "collected", errs |-> q]

\* Close: case <-done: return al.collectErrors()
CloseDone(k) ==
    /\ closer[k].pc = "wait"
    /\ drain.pc = "finished"
    /\ closer' = [closer EXCEPT ![k].pc = "returned", ![k].res = collectErrors(errCh)]
    /\ errCh' = <<>>
    /\ UNCHANGED <<ch, chClosed, ctxDone, closed, total, dropped, errChClosed,
                   process, drain, caller, nextRec, accepted, acceptOrder, droppedRecs, sunk, drainErrs>>
    /\ UNCHANGED nonLog

\* Close whose select has no time.After case
CloseNoTimeout(k) ==
    /\ FALSE
    /\ UNCHANGED vars

\* Close: case <-time.After(5 * time.Second): the timer may elapse before done
\* is signalled, whatever the other goroutines are doing
CloseTimeout(k) ==
    /\ closer[k].pc = "wait"
    /\ closer' = [closer EXCEPT ![k].pc = "returned",
                                ![k].res = [kind |-> "timeout", errs |-> <<>>]]
    /\ UNCHANGED <<ch, chClosed, ctxDone, closed, total, dropped, errCh, errChClosed,
                   process, drain, caller, nextRec, accepted, acceptOrder, droppedRecs, sunk, drainErrs>>
    /\ UNCHANGED nonLog

\* the steps of one Handle call after its first
HandleStep(c) ==
    \/ HandleSend(c)
    \/ HandleSendClosed(c)
    \/ HandleCtxDone(c)
    \/ HandleFull(c)
    \/ HandleSent(c)
    \/ HandleDefault(c)

\* the steps of one Close call
CloseStep(k) ==
    \/ CloseLoad(k)
    \/ CloseCas(k)
    \/ CloseChan(k)
    \/ CloseCancel(k)
    \/ CloseSpawn(k)
    \/ CloseDone(k)
    \/ CloseTimeout(k)

\* the log pipeline with the given goroutines calling Handle
NextLogOf(callers) ==
    \/ \E c \in callers : HandleStart(c)
    \/ \E c \in callers : HandleStep(c)
    \/ ProcessRecv
    \/ ProcessSinkReturn
    \/ ProcessExit
    \/ \E k \in Closers : CloseStep(k)
    \/ DrainRecv
    \/ DrainSinkReturn
    \/ DrainEnd
    \/ DrainJoin

NextLog == NextLogOf(Callers)

\* one goroutine calling Handle
NextLogLive == NextLogOf({"h1"})

(***************************************************************************)
(* shardedCache                                                            *)
(***************************************************************************)
\* murmur3.Sum32([]byte(key)) of the keys used
murmur3Sum32 == [a |-> 1009084850, d |-> 655955059]

\* hash that mixes in a number that changes while the cache lives
hashUnstable(key) == (murmur3Sum32[key] + cacheOps) % shardCount

\* hash: murmur3.Sum32([]byte(key)) % c.shardCount
hash(key) == murmur3Sum32[key] % shardCount

\* a nil []string
NoValue == ""

\* a sync.RWMutex nobody holds
NoLock == [writer |-> "", readers |-> {}]

\* RWMutex.RLock returns at once unless a writer holds or awaits the lock
CanRLock(mu) == mu.writer = ""

\* RWMutex.Lock: one writer at a time announces itself, then waits for the
\* readers to leave
CanLock(mu) == mu.writer = ""

\* shard.m[key] = value, and delete(shard.m, key)
MapStore(m, key, value) == [k \in DOMAIN m \cup {key} |-> IF k = key THEN value ELSE m[k]]
MapDelete(m, key) == [k \in DOMAIN m \ {key} |-> m[k]]

\* the entries of an LRU other than the key's
lruWithout(l, key) == SelectSeq(l, LAMBDA e : e.key # key)
lruContains(l, key) == \E i \in 1..Len(l) : l[i].key = key
lruValue(l, key) == l[CHOOSE i \in 1..Len(l) : l[i].key = key].value

\* lru.Cache.Get: a hit makes the entry the most recently used
lruGet(l, key) ==
    IF lruContains(l, key)
    THEN <<[key |-> key, value |-> lruValue(l, key)]>> \o lruWithout(l, key)
    ELSE l

\* lru.Cache.Add that refuses a new key when the cache is full
lruAddNoEvict(l, key, value) ==
    IF lruContains(l, key) \/ Len(l) < LruSize
    THEN <<[key |-> key, value |-> value]>> \o lruWithout(l, key)
    ELSE l

\* lru.Cache.Add: the entry becomes the most recently used, the least recently
\* used one is evicted when the size is exceeded
lruAdd(l, key, value) ==
    LET n == <<[key |-> key, value |-> value]>> \o lruWithout(l, key)
    IN IF Len(n) > LruSize THEN SubSeq(n, 1, LruSize) ELSE n

\* a task that is in no call of the cache: the locals of its last call are gone
NoCall == [pc |-> "idle", op |-> "", key |-> "", val |-> NoValue, idx |-> 0,
           found |-> FALSE, stats |-> <<>>]

\* newShardedCache with numShards among counts; no task is in a call
newShardedCache(counts) ==
    /\ shardCount \in counts
    /\ shards = [i \in 0..(shardCount - 1) |->
                    [m |-> [k \in {} |-> NoValue], hits |-> 0, misses |-> 0, mu |-> NoLock]]
    /\ lruCaches = [i \in 0..(shardCount - 1) |-> <<>>]
    /\ lruLocks = [i \in 0..(shardCount - 1) |-> NoLock]
    /\ task = [t \in Tasks |-> NoCall]
    /\ cacheOps = 0
    /\ gets = [i \in 0..(shardCount - 1) |-> 0]
    /\ written = [k \in Keys |-> NoValue]

\* a task enters a method of the cache: the locals of the call
Call(t, op, key, val, idx, pc) ==
    /\ task[t].pc = "idle"
    /\ cacheOps < MaxCacheOps
    /\ cacheOps' = cacheOps + 1
    /\ task' = [task EXCEPT ![t] = [pc |-> pc, op |-> op, key |-> key, val |-> val,
                                    idx |-> idx, found |-> FALSE, stats |-> <<>>]]
    /\ UNCHANGED <<shardCount, gets, shards, lruCaches, lruLocks, written>>
    /\ UNCHANGED nonCache

\* Get: shardIndex := c.hash(key)
GetCall(t) == \E k \in Keys : Call(t, "Get", k, NoValue, hash(k), "rlock")

\* Set: shardIndex := c.hash(key)
SetCall(t, values) == \E k \in Keys, v \in values : Call(t, "Set", k, v, hash(k), "lock")

\* Delete: shardIndex := c.hash(key)
DeleteCall(t) == \E k \in Keys : Call(t, "Delete", k, NoValue, hash(k), "lock")

\* Clear: the loop starts at shard 0
ClearCall(t) == Call(t, "Clear", "", NoValue, 0, "lock")

\* Stats: the loop starts at shard 0
StatsCall(t) == Call(t, "Stats", "", NoValue, 0, "stats")

\* shard.Lock() in Set, Delete and Clear: the writer announces itself and holds
\* the lock at once if no reader holds it
ShardLock(t) ==
    /\ task[t].pc = "lock"
    /\ CanLock(shards[task[t].idx].mu)
    /\ shards' = [shards EXCEPT ![task[t].idx].mu.writer = t]
    /\ task' = [task EXCEPT ![t].pc =
                   IF shards[task[t].idx].mu.readers = {} THEN "locked" ELSE "lockWait"]
    /\ UNCHANGED <<shardCount, gets, lruCaches, lruLocks, cacheOps, written>>
    /\ UNCHANGED nonCache

\* shard.Lock(): the announced writer holds the lock once the readers have left
ShardLockWait(t) ==
    /\ task[t].pc = "lockWait"
    /\ shards[task[t].idx].mu.readers = {}
    /\ task' = [task EXCEPT ![t].pc = "locked"]
    /\ UNCHANGED <<shardCount, gets, shards, lruCaches, lruLocks, cacheOps, written>>
    /\ UNCHANGED nonCache

\* lruLock.Lock() in Get, Set, Delete and Clear
LruLock(t) ==
    /\ task[t].pc = "lruLock"
    /\ CanLock(lruLocks[task[t].idx])
    /\ lruLocks' = [lruLocks EXCEPT ![task[t].idx].writer = t]
    /\ task' = [task EXCEPT ![t].pc =
                   IF lruLocks[task[t].idx].readers = {} THEN "lruLocked" ELSE "lruLockWait"]
    /\ UNCHANGED <<shardCount, gets, shards, lruCaches, cacheOps, written>>
    /\ UNCHANGED nonCache

\* lruLock.Lock(): the announced writer holds the lock once the readers have left
LruLockWait(t) ==
    /\ task[t].pc = "lruLockWait"
    /\ lruLocks[task[t].idx].readers = {}
    /\ task' = [task EXCEPT ![t].pc = "lruLocked"]
    /\ UNCHANGED <<shardCount, gets, shards, lruCaches, lruLocks, cacheOps, written>>
    /\ UNCHANGED nonCache

\* Get: shard.RLock()
GetRLock(t) ==
    /\ task[t].pc = "rlock"
    /\ CanRLock(shards[task[t].idx].mu)
    /\ shards' = [shards EXCEPT ![task[t].idx].mu.readers = @ \cup {t}]
    /\ task' = [task EXCEPT ![t].pc = "lruRLock"]
    /\ UNCHANGED <<shardCount, gets, lruCaches, lruLocks, cacheOps, written>>
    /\ UNCHANGED nonCache

\* Get: lruLock.RLock()
GetLruRLock(t) ==
    /\ task[t].pc = "lruRLock"
    /\ CanRLock(lruLocks[task[t].idx])
    /\ lruLocks' = [lruLocks EXCEPT ![task[t].idx].readers = @ \cup {t}]
    /\ task' = [task EXCEPT ![t].pc = "lruGet"]
    /\ UNCHANGED <<shardCount, gets, shards, lruCaches, cacheOps, written>>
    /\ UNCHANGED nonCache

\* Get that keeps the LRU read lock when the LRU misses
GetLruGetKeepsRLock(t) ==
    LET i == task[t].idx
        k == task[t].key
    IN /\ task[t].pc = "lruGet"
       /\ lruCaches' = [lruCaches EXCEPT ![i] = lruGet(@, k)]
       /\ lruLocks' = IF lruContains(lruCaches[i], k)
                      THEN [lruLocks EXCEPT ![i].readers = @ \ {t}]
                      ELSE lruLocks
       /\ task' = [task EXCEPT ![t] =
                      IF lruContains(lruCaches[i], k)
                      THEN [@ EXCEPT !.pc = "hit", !.found = TRUE,
                                     !.val = lruValue(lruCaches[i], k)]
                      ELSE IF k \in DOMAIN shards[i].m
                      THEN [@ EXCEPT !.pc = "lruLock", !.found = TRUE, !.val = shards[i].m[k]]
                      ELSE [@ EXCEPT !.pc = "miss"]]
       /\ UNCHANGED <<shardCount, gets, shards, cacheOps, written>>
       /\ UNCHANGED nonCache

\* Get: lruCache.Get(key) and lruLock.RUnlock(); on an LRU miss the plain map
\* is looked up, under the shard's read lock all along
GetLruGet(t) ==
    LET i == task[t].idx
        k == task[t].key
    IN /\ task[t].pc = "lruGet"
       /\ lruCaches' = [lruCaches EXCEPT ![i] = lruGet(@, k)]
       /\ lruLocks' = [lruLocks EXCEPT ![i].readers = @ \ {t}]
       /\ task' = [task EXCEPT ![t] =
                      IF lruContains(lruCaches[i], k)
                      THEN [@ EXCEPT !.pc = "hit", !.found = TRUE,
                                     !.val = lruValue(lruCaches[i], k)]
                      ELSE IF k \in DOMAIN shards[i].m
                      THEN [@ EXCEPT !.pc = "lruLock", !.found = TRUE, !.val = shards[i].m[k]]
                      ELSE [@ EXCEPT !.pc = "miss"]]
       /\ UNCHANGED <<shardCount, gets, shards, cacheOps, written>>
       /\ UNCHANGED nonCache

\* Get, found in the plain map only: lruCache.Add(key, value); lruLock.Unlock()
GetLruAdd(t) ==
    /\ task[t].pc = "lruLocked"
    /\ task[t].op = "Get"
    /\ lruCaches' = [lruCaches EXCEPT ![task[t].idx] = lruAdd(@, task[t].key, task[t].val)]
    /\ lruLocks' = [lruLocks EXCEPT ![task[t].idx].writer = ""]
    /\ task' = [task EXCEPT ![t].pc = "hit"]
    /\ UNCHANGED <<shardCount, gets, shards, cacheOps, written>>
    /\ UNCHANGED nonCache

\* Get: shard.hits.Add(1); return value, true (the deferred shard.RUnlock runs)
GetHit(t) ==
    /\ task[t].pc = "hit"
    /\ shards' = [shards EXCEPT ![task[t].idx].hits = @ + 1,
                                ![task[t].idx].mu.readers = @ \ {t}]
    /\ task' = [task EXCEPT ![t] = NoCall]
    /\ gets' = [gets EXCEPT ![task[t].idx] = @ + 1]
    /\ UNCHANGED <<shardCount, lruCaches, lruLocks, cacheOps, written>>
    /\ UNCHANGED nonCache

\* Get that returns not-found without counting the miss
GetMissUncounted(t) ==
    /\ task[t].pc = "miss"
    /\ shards' = [shards EXCEPT ![task[t].idx].mu.readers = @ \ {t}]
    /\ gets' = [gets EXCEPT ![task[t].idx] = @ + 1]
    /\ task' = [task EXCEPT ![t] = NoCall]
    /\ UNCHANGED <<shardCount, lruCaches, lruLocks, cacheOps, written>>
    /\ UNCHANGED nonCache

\* Get: shard.misses.Add(1); return nil, false (the deferred shard.RUnlock runs)
GetMiss(t) ==
    /\ task[t].pc = "miss"
    /\ shards' = [shards EXCEPT ![task[t].idx].misses = @ + 1,
                                ![task[t].idx].mu.readers = @ \ {t}]
    /\ task' = [task EXCEPT ![t] = NoCall]
    /\ gets' = [gets EXCEPT ![task[t].idx] = @ + 1]
    /\ UNCHANGED <<shardCount, lruCaches, lruLocks, cacheOps, written>>
    /\ UNCHANGED nonCache

\* Set: shard.m[key] = value
SetStore(t) ==
    /\ task[t].pc = "locked"
    /\ task[t].op = "Set"
    /\ shards' = [shards EXCEPT ![task[t].idx].m = MapStore(@, task[t].key, task[t].val)]
    /\ task' = [task EXCEPT ![t].pc = "lruLock"]
    /\ UNCHANGED <<shardCount, gets, lruCaches, lruLocks, cacheOps, written>>
    /\ UNCHANGED nonCache

\* Set: lruCache.Add(key, value); lruLock.Unlock(); the deferred shard.Unlock()
SetLruAdd(t) ==
    /\ task[t].pc = "lruLocked"
    /\ task[t].op = "Set"
    /\ lruCaches' = [lruCaches EXCEPT ![task[t].idx] = lruAdd(@, task[t].key, task[t].val)]
    /\ lruLocks' = [lruLocks EXCEPT ![task[t].idx].writer = ""]
    /\ shards' = [shards EXCEPT ![task[t].idx].mu.writer = ""]
    /\ task' = [task EXCEPT ![t] = NoCall]
    /\ written' = [written EXCEPT ![task[t].key] = task[t].val]
    /\ UNCHANGED <<shardCount, gets, cacheOps>>
    /\ UNCHANGED nonCache

\* Delete: delete(shard.m, key)
DeleteMap(t) ==
    /\ task[t].pc = "locked"
    /\ task[t].op = "Delete"
    /\ shards' = [shards EXCEPT ![task[t].idx].m = MapDelete(@, task[t].key)]
    /\ task' = [task EXCEPT ![t].pc = "lruLock"]
    /\ UNCHANGED <<shardCount, gets, lruCaches, lruLocks, cacheOps, written>>
    /\ UNCHANGED nonCache

\* Delete that leaves the key in the LRU tier
DeleteKeepsLru(t) ==
    /\ task[t].pc = "lruLocked"
    /\ task[t].op = "Delete"
    /\ lruLocks' = [lruLocks EXCEPT ![task[t].idx].writer = ""]
    /\ shards' = [shards EXCEPT ![task[t].idx].mu.writer = ""]
    /\ task' = [task EXCEPT ![t] = NoCall]
    /\ written' = [written EXCEPT ![task[t].key] = NoValue]
    /\ UNCHANGED <<shardCount, gets, lruCaches, cacheOps>>
    /\ UNCHANGED nonCache

\* Delete: lruCache.Remove(key); lruLock.Unlock(); return nil (the deferred
\* shard.Unlock() runs)
DeleteLruRemove(t) ==
    /\ task[t].pc = "lruLocked"
    /\ task[t].op = "Delete"
    /\ lruCaches' = [lruCaches EXCEPT ![task[t].idx] = lruWithout(@, task[t].key)]
    /\ lruLocks' = [lruLocks EXCEPT ![task[t].idx].writer = ""]
    /\ shards' = [shards EXCEPT ![task[t].idx].mu.writer = ""]
    /\ task' = [task EXCEPT ![t] = NoCall]
    /\ written' = [written EXCEPT ![task[t].key] = NoValue]
    /\ UNCHANGED <<shardCount, gets, cacheOps>>
    /\ UNCHANGED nonCache

\* Clear, shard i: shard.m = make(map); shard.hits.Store(0); shard.misses.Store(0)
ClearShard(t) ==
    /\ task[t].pc = "locked"
    /\ task[t].op = "Clear"
    /\ shards' = [shards EXCEPT ![task[t].idx].m = [k \in {} |-> NoValue],
                                ![task[t].idx].hits = 0,
                                ![task[t].idx].misses = 0]
    /\ task' = [task EXCEPT ![t].pc = "lruLock"]
    /\ gets' = [gets EXCEPT ![task[t].idx] = 0]
    /\ UNCHANGED <<shardCount, lruCaches, lruLocks, cacheOps, written>>
    /\ UNCHANGED nonCache

\* Clear that leaves the LRU tier of the shard as it is
ClearKeepsLru(t) ==
    LET i == task[t].idx
    IN /\ task[t].pc = "lruLocked"
       /\ task[t].op = "Clear"
       /\ lruLocks' = [lruLocks EXCEPT ![i].writer = ""]
       /\ shards' = [shards EXCEPT ![i].mu.writer = ""]
       /\ task' = [task EXCEPT ![t] = IF i + 1 < shardCount
                                       THEN [@ EXCEPT !.idx = i + 1, !.pc = "lock"]
                                       ELSE NoCall]
       /\ written' = [k \in Keys |-> IF hash(k) = i THEN NoValue ELSE written[k]]
       /\ UNCHANGED <<shardCount, gets, lruCaches, cacheOps>>
       /\ UNCHANGED nonCache

\* Clear, shard i: lruCache.Purge(); lruLock.Unlock(); shard.Unlock(); the loop
\* goes on to shard i+1 or ends
ClearPurge(t) ==
    LET i == task[t].idx
    IN /\ task[t].pc = "lruLocked"
       /\ task[t].op = "Clear"
       /\ lruCaches' = [lruCaches EXCEPT ![i] = <<>>]
       /\ lruLocks' = [lruLocks EXCEPT ![i].writer = ""]
       /\ shards' = [shards EXCEPT ![i].mu.writer = ""]
       /\ task' = [task EXCEPT ![t] = IF i + 1 < shardCount
                                       THEN [@ EXCEPT !.idx = i + 1, !.pc = "lock"]
                                       ELSE NoCall]
       /\ written' = [k \in Keys |-> IF hash(k) = i THEN NoValue ELSE written[k]]
       /\ UNCHANGED <<shardCount, gets, cacheOps>>
       /\ UNCHANGED nonCache

\* Stats, shard i: shard.hits.Load() and shard.misses.Load(), no lock taken
StatsRead(t) ==
    LET i == task[t].idx
    IN /\ task[t].pc = "stats"
       /\ task' = [task EXCEPT ![t] =
                      IF i + 1 < shardCount
                      THEN [@ EXCEPT !.stats = Append(@, <<shards[i].hits, shards[i].misses>>),
                                     !.idx = i + 1]
                      ELSE NoCall]
       /\ UNCHANGED <<shardCount, gets, shards, lruCaches, lruLocks, cacheOps, written>>
       /\ UNCHANGED nonCache

\* the steps of a call on the cache after its first
TaskStep(t) ==
    \/ ShardLock(t)
    \/ ShardLockWait(t)
    \/ LruLock(t)
    \/ LruLockWait(t)
    \/ GetRLock(t)
    \/ GetLruRLock(t)
    \/ GetLruGet(t)
    \/ GetLruAdd(t)
    \/ GetHit(t)
    \/ GetMiss(t)
    \/ SetStore(t)
    \/ SetLruAdd(t)
    \/ DeleteMap(t)
    \/ DeleteLruRemove(t)
    \/ ClearShard(t)
    \/ ClearPurge(t)
    \/ StatsRead(t)

\* the cache with the tasks setting the given values
NextCacheOf(values) ==
    \/ \E t \in Tasks : GetCall(t)
    \/ \E t \in Tasks : SetCall(t, values)
    \/ \E t \in Tasks : DeleteCall(t)
    \/ \E t \in Tasks : ClearCall(t)
    \/ \E t \in Tasks : StatsCall(t)
    \/ \E t \in Tasks : TaskStep(t)

NextCache == NextCacheOf(Values)

\* the tasks set one value only
NextCacheLive == NextCacheOf({"v1"})

(***************************************************************************)
(* rotatingFileHandler.  A file name is the sequence of its pieces; the    *)
(* clock counts half days.                                                 *)
(***************************************************************************)
\* the baseFileName given to NewRotatingFileHandler (config.go passes "db")
baseFileName == <<"db">>

\* time.Now().Format("2006-01-02") at clock value t
DateString(t) == "2025-01-0" \o ToString(t \div 2)

\* time.Parse("2006-01-02", s) succeeds
ValidDate(s) == s \in {DateString(t) : t \in 2..19}

\* fmt.Sprintf("%s_%s.log", r.baseFileName, currentDate) and "%s.log"
DatedName(date) == baseFileName \o <<"_", date, ".log">>
PlainName == baseFileName \o <<".log">>

\* strings.HasPrefix, strings.HasSuffix(s, ".log"), strings.TrimSuffix(s, ".log")
HasPrefix(s, p) == Len(s) >= Len(p) /\ SubSeq(s, 1, Len(p)) = p
HasLogSuffix(s) == s # <<>> /\ s[Len(s)] = ".log"
TrimLogSuffix(s) == IF HasLogSuffix(s) THEN SubSeq(s, 1, Len(s) - 1) ELSE s

\* strings.Split(s, "_")
RECURSIVE Split(_)
Split(s) ==
    IF \E i \in 1..Len(s) : s[i] = "_"
    THEN LET i == CHOOSE j \in 1..Len(s) : s[j] = "_" /\ \A h \in 1..(j - 1) : s[h] # "_"
         IN <<SubSeq(s, 1, i - 1)>> \o Split(SubSeq(s, i + 1, Len(s)))
    ELSE <<s>>

\* cleanupOldLogs: the test a directory entry passes to be removed
Expired(name, info, cutoffTime) ==
    /\ ~info.isDir
    /\ HasPrefix(name, baseFileName)
    /\ HasLogSuffix(name)
    /\ LET parts == Split(name)
       IN /\ Len(parts) >= 2
          /\ HasLogSuffix(parts[2])
          /\ Len(TrimLogSuffix(parts[2])) = 1
          /\ ValidDate(TrimLogSuffix(parts[2])[1])
    /\ info.mtime < cutoffTime

\* the files of a directory other than the given ones
Without(dir, names) == [n \in DOMAIN dir \ names |-> dir[n]]

\* os.OpenFile(name, O_CREATE|O_APPEND|O_WRONLY): the directory afterwards
Created(dir, name) ==
    [n \in DOMAIN dir \cup {name} |->
        IF n \in DOMAIN dir THEN dir[n] ELSE [mtime |-> now, isDir |-> FALSE]]

\* a write through an open file: the directory afterwards (a removed file
\* takes the bytes without appearing in the directory)
Written(dir, fd) ==
    IF openFiles[fd].linked
    THEN [dir EXCEPT ![openFiles[fd].name].mtime = now]
    ELSE dir

\* an empty directory
NoFiles == [n \in {} |-> [mtime |-> 0, isDir |-> FALSE]]

\* no write was made yet
NoWrite == [by |-> "", ok |-> FALSE, sampled |-> 0, at |-> 0, currentDate |-> "",
            file |-> <<>>]

\* NewRotatingFileHandler, its open having succeeded, in a directory that
\* holds the given entries; nobody is inside Write
NewRotatingFileHandler(dirs, enabled, ages) ==
    /\ now = 4
    /\ logRotationEnabled \in enabled
    /\ maxAge \in ages
    /\ currentDate = (IF logRotationEnabled THEN DateString(now) ELSE "")
    /\ \E dir \in dirs :
          fs = Created(dir, IF logRotationEnabled THEN DatedName(DateString(now))
                            ELSE PlainName)
    /\ openFiles = [fd \in {1} |->
                      [name |-> IF logRotationEnabled THEN DatedName(DateString(now))
                                ELSE PlainName,
                       linked |-> TRUE]]
    /\ currentFile = 1
    /\ nextFd = 2
    /\ writer = [w \in Writers |-> [pc |-> "idle", sampled |-> 0]]
    /\ closes = 0
    /\ lastWrite = NoWrite
    /\ swept = [done |-> FALSE, before |-> fs, cutoffTime |-> 0]

\* the wall clock advances
Tick ==
    /\ now < MaxNow
    /\ now' = now + 1
    /\ UNCHANGED <<fs, openFiles, nextFd, currentFile, currentDate, logRotationEnabled,
                   maxAge, writer, closes, lastWrite, swept>>
    /\ UNCHANGED nonRot

\* the open files once r.currentFile was closed (closing a closed file changes nothing)
CloseCurrent == [fd \in DOMAIN openFiles \ {currentFile} |-> openFiles[fd]]

\* openNewFileIfNeeded that never looks at the date once a file is open
openNewFileIfNeededNoRotation(ok) ==
    [err |-> FALSE, fs |-> fs, openFiles |-> openFiles, nextFd |-> nextFd,
     currentFile |-> currentFile, currentDate |-> currentDate]

\* openNewFileIfNeeded under r.mu, os.MkdirAll and os.OpenFile succeeding (ok)
\* or one of them failing: the error returned and the fields afterwards
openNewFileIfNeeded(ok) ==
    LET same == [err |-> FALSE, fs |-> fs, openFiles |-> openFiles, nextFd |-> nextFd,
                 currentFile |-> currentFile, currentDate |-> currentDate]
        open(name, date, files) ==
            IF ok
            THEN [err |-> FALSE, fs |-> Created(fs, name),
                  openFiles |-> [fd \in DOMAIN files \cup {nextFd} |->
                                    IF fd = nextFd THEN [name |-> name, linked |-> TRUE]
                                    ELSE files[fd]],
                  nextFd |-> nextFd + 1, currentFile |-> nextFd, currentDate |-> date]
            ELSE [same EXCEPT !.err = TRUE, !.openFiles = files]
    IN IF logRotationEnabled
       THEN IF DateString(now) # currentDate
            THEN open(DatedName(DateString(now)), DateString(now),
                      IF currentFile # 0 THEN CloseCurrent ELSE openFiles)
            ELSE same
       ELSE IF currentFile # 0 THEN same ELSE open(PlainName, "", openFiles)

\* the fields of the handler after openNewFileIfNeeded returned r
Opened(r) ==
    /\ fs' = r.fs
    /\ openFiles' = r.openFiles
    /\ nextFd' = r.nextFd
    /\ currentFile' = r.currentFile
    /\ currentDate' = r.currentDate

\* Write: if err := r.openNewFileIfNeeded(); err != nil { return 0, err }
WriteOpen(w) ==
    /\ writer[w].pc = "idle"
    /\ \E ok \in BOOLEAN :
          LET r == openNewFileIfNeeded(ok)
          IN /\ Opened(r)
             /\ writer' = [writer EXCEPT ![w] =
                              IF r.err THEN [pc |-> "idle", sampled |-> 0]
                              ELSE [pc |-> "opened", sampled |-> now]]
             /\ lastWrite' = IF r.err THEN [NoWrite EXCEPT !.by = "Write"] ELSE lastWrite
    /\ UNCHANGED <<now, logRotationEnabled, maxAge, closes, swept>>
    /\ UNCHANGED nonRot

\* Write: r.mu.Lock(); return r.currentFile.Write(p), which fails on a nil or
\* closed file
WriteFile(w) ==
    /\ writer[w].pc = "opened"
    /\ writer' = [writer EXCEPT ![w] = [pc |-> "idle", sampled |-> 0]]
    /\ IF currentFile \in DOMAIN openFiles
       THEN /\ fs' = Written(fs, currentFile)
            /\ lastWrite' = [by |-> "Write", ok |-> TRUE, sampled |-> writer[w].sampled,
                             at |-> now, currentDate |-> currentDate,
                             file |-> openFiles[currentFile].name]
       ELSE /\ fs' = fs
            /\ lastWrite' = [NoWrite EXCEPT !.by = "Write"]
    /\ UNCHANGED <<now, openFiles, nextFd, currentFile, currentDate, logRotationEnabled,
                   maxAge, closes, swept>>
    /\ UNCHANGED nonRot

\* Handle: r.handler.Handle(ctx, record); r.handler is the JSON handler that
\* NewRotatingFileHandler built on the file open at that time (file 1)
FileHandle ==
    /\ IF 1 \in DOMAIN openFiles
       THEN /\ fs' = Written(fs, 1)
            /\ lastWrite' = [by |-> "Handle", ok |-> TRUE, sampled |-> now,
                             at |-> now, currentDate |-> currentDate,
                             file |-> openFiles[1].name]
       ELSE /\ fs' = fs
            /\ lastWrite' = [NoWrite EXCEPT !.by = "Handle"]
    /\ UNCHANGED <<now, openFiles, nextFd, currentFile, currentDate, logRotationEnabled,
                   maxAge, writer, closes, swept>>
    /\ UNCHANGED nonRot

\* Close: Sync and Close of r.currentFile; on success the fields are reset, a
\* file already closed makes Sync fail and Close return the error
FileClose ==
    /\ closes < MaxFileCloses
    /\ closes' = closes + 1
    /\ IF currentFile \in DOMAIN openFiles
       THEN /\ openFiles' = CloseCurrent
            /\ currentFile' = 0
            /\ currentDate' = ""
       ELSE UNCHANGED <<openFiles, currentFile, currentDate>>
    /\ UNCHANGED <<now, fs, nextFd, logRotationEnabled, maxAge, writer, lastWrite, swept>>
    /\ UNCHANGED nonRot

\* cleanupOldLogs under r.mu, called by the ticker of startLogRotationCleanup,
\* which runs only when rotation is enabled
cleanupOldLogs ==
    LET cutoffTime == now - maxAge
        removed == {n \in DOMAIN fs : Expired(n, fs[n], cutoffTime)}
    IN /\ logRotationEnabled
       /\ fs' = Without(fs, removed)
       /\ openFiles' = [fd \in DOMAIN openFiles |->
                           IF openFiles[fd].name \in removed
                           THEN [openFiles[fd] EXCEPT !.linked = FALSE]
                           ELSE openFiles[fd]]
       /\ swept' = [done |-> TRUE, before |-> fs, cutoffTime |-> cutoffTime]
       /\ UNCHANGED <<now, nextFd, currentFile, currentDate, logRotationEnabled, maxAge,
                      writer, closes, lastWrite>>
       /\ UNCHANGED nonRot

NextRot ==
    \/ Tick
    \/ \E w \in Writers : WriteOpen(w)
    \/ \E w \in Writers : WriteFile(w)
    \/ FileHandle
    \/ FileClose
    \/ cleanupOldLogs

\* the retention sweep on its own
NextSweep == Tick \/ cleanupOldLogs

(***************************************************************************)
(* Transactions: *sql.Tx, DB.ExecTx and Table.BatchInsert                  *)
(***************************************************************************)
\* no *sql.Tx yet
NoTx == [done |-> TRUE, rows |-> 0]

\* the record kept of a transaction that was begun
BegunBy(op) ==
    [op |-> op, fn |-> "", rowsIn |-> 0, batches |-> 0, execsOk |-> 0, commitCalls |-> 0,
     rollbackCalls |-> 0, persisted |-> 0, ret |-> ""]

\* no call of ExecTx or BatchInsert in progress
NoTxCall ==
    [op |-> "", pc |-> "idle", data |-> <<>>, batchSize |-> 0, i |-> 0, fieldCount |-> 0,
     args |-> 0, err |-> FALSE, panicked |-> FALSE]

\* Transaction.Commit on a *sql.Tx: ErrTxDone once the transaction is done;
\* otherwise the transaction is done and, unless the driver fails, its rows
\* are in the table
Commit(tx, tbl, ok) ==
    IF tx.done
    THEN [tx |-> tx, table |-> tbl, err |-> TRUE]
    ELSE [tx |-> [done |-> TRUE, rows |-> 0],
          table |-> IF ok THEN tbl + tx.rows ELSE tbl,
          err |-> ~ok]

\* Transaction.Rollback: ErrTxDone once the transaction is done; otherwise
\* the transaction is done and its rows are discarded
Rollback(tx, ok) ==
    IF tx.done
    THEN [tx |-> tx, err |-> TRUE]
    ELSE [tx |-> [done |-> TRUE, rows |-> 0], err |-> ~ok]

\* tx.Exec of an INSERT of n rows with placeholders for n rows: it fails if
\* the transaction is done, if the number of arguments is not the number of
\* placeholders, or in the database
Exec(tx, n, placeholders, args, ok) ==
    IF tx.done \/ placeholders # args \/ ~ok
    THEN [tx |-> tx, err |-> TRUE]
    ELSE [tx |-> [tx EXCEPT !.rows = tx.rows + n], err |-> FALSE]

\* the last transaction begun, in the history
Last == Len(txLog)

\* the call returns (or panics): its locals are gone
TxReturn(entry, ret) ==
    /\ txLog' = [txLog EXCEPT ![Last] = [entry EXCEPT !.ret = ret]]
    /\ txCall' = NoTxCall

\* ---- DB.ExecTx ----
\* ExecTx that commits whatever the callback returned
AfterFnAlwaysCommit(outcome) == "commit"

\* ExecTx after fn(tx): an error leads to Rollback, nil to Commit; a panic is
\* caught by the deferred recover
AfterFn(outcome) ==
    CASE outcome = "nil" -> "commit"
      [] outcome = "err" -> "rollback"
      [] OTHER -> "recover"

\* ExecTx: db.Begin(); on an error ExecTx returns it
ExecTxBegin ==
    /\ txCall.pc = "idle"
    /\ txCalls < MaxTxCalls
    /\ txCalls' = txCalls + 1
    /\ \E ok \in BOOLEAN :
          IF ok
          THEN /\ sqlTx' = [done |-> FALSE, rows |-> 0]
               /\ txLog' = Append(txLog, BegunBy("ExecTx"))
               /\ txCall' = [NoTxCall EXCEPT !.op = "ExecTx", !.pc = "fn"]
          ELSE UNCHANGED <<sqlTx, txLog, txCall>>
    /\ UNCHANGED table
    /\ UNCHANGED nonTx

\* ExecTx: fn(tx) runs statements in the transaction and returns nil or an
\* error, or panics
ExecTxFn ==
    /\ txCall.op = "ExecTx"
    /\ txCall.pc = "fn"
    /\ \E n \in 0..1, outcome \in {"nil", "err", "panic"} :
          /\ sqlTx' = [sqlTx EXCEPT !.rows = sqlTx.rows + n]
          /\ txLog' = [txLog EXCEPT ![Last].fn = outcome, ![Last].rowsIn = n]
          /\ txCall' = [txCall EXCEPT !.pc = AfterFn(outcome)]
    /\ UNCHANGED <<table, txCalls>>
    /\ UNCHANGED nonTx

\* ExecTx: tx.Commit(); nil or the commit error is returned
ExecTxCommit ==
    /\ txCall.op = "ExecTx"
    /\ txCall.pc = "commit"
    /\ \E ok \in BOOLEAN :
          LET r == Commit(sqlTx, table, ok)
          IN /\ sqlTx' = r.tx
             /\ table' = r.table
             /\ TxReturn([txLog[Last] EXCEPT !.commitCalls = @ + 1,
                                             !.persisted = r.table - table],
                         IF r.err THEN "err" ELSE "nil")
    /\ UNCHANGED txCalls
    /\ UNCHANGED nonTx

\* ExecTx: tx.Rollback() after fn returned an error, which is returned
\* (with the rollback error if there is one)
ExecTxRollback ==
    /\ txCall.op = "ExecTx"
    /\ txCall.pc = "rollback"
    /\ \E ok \in BOOLEAN :
          /\ sqlTx' = Rollback(sqlTx, ok).tx
          /\ TxReturn([txLog[Last] EXCEPT !.rollbackCalls = @ + 1], "err")
    /\ UNCHANGED <<table, txCalls>>
    /\ UNCHANGED nonTx

\* ExecTx: the deferred function recovers the panic, calls tx.Rollback() and
\* panics again
ExecTxRecover ==
    /\ txCall.op = "ExecTx"
    /\ txCall.pc = "recover"
    /\ \E ok \in BOOLEAN :
          /\ sqlTx' = Rollback(sqlTx, ok).tx
          /\ TxReturn([txLog[Last] EXCEPT !.rollbackCalls = @ + 1], "panic")
    /\ UNCHANGED <<table, txCalls>>
    /\ UNCHANGED nonTx

\* ---- Table.BatchInsert ----
Min(a, b) == IF a < b THEN a ELSE b

\* the data handed to BatchInsert: per row the number of its fields
Datas == UNION {[1..n -> {1, 2}] : n \in 0..MaxRows}
\* the batch sizes handed to BatchInsert: negative, 0 (the default), 1, 2
BatchSizes == {-1, 0, 1, 2}

\* number of passes of the batch loop over dataLen rows
NumBatches(dataLen, batchSize) ==
    IF batchSize < 0 THEN 0 ELSE (dataLen + batchSize - 1) \div batchSize

\* extractBatchFields: the fields of the first row; an error if another row
\* has a different number of fields
extractBatchFields(data) ==
    [err |-> Len(data) = 0 \/ \E k \in 2..Len(data) : data[k] # data[1],
     fieldCount |-> IF Len(data) = 0 THEN 0 ELSE data[1]]

\* BatchInsert: default batch size, nothing to do for no data, else t.db.Begin()
BatchInsertBegin ==
    /\ txCall.pc = "idle"
    /\ txCalls < MaxTxCalls
    /\ txCalls' = txCalls + 1
    /\ \E data \in Datas, size \in BatchSizes, ok \in BOOLEAN :
          LET batchSize == IF size = 0 THEN defaultBatchSize ELSE size
          IN IF Len(data) = 0 \/ ~ok
             THEN UNCHANGED <<sqlTx, txLog, txCall>>
             ELSE /\ sqlTx' = [done |-> FALSE, rows |-> 0]
                  /\ txLog' = Append(txLog,
                                 [BegunBy("BatchInsert") EXCEPT
                                     !.batches = NumBatches(Len(data), batchSize)])
                  /\ txCall' = [NoTxCall EXCEPT !.op = "BatchInsert", !.pc = "fields",
                                                !.data = data, !.batchSize = batchSize]
    /\ UNCHANGED table
    /\ UNCHANGED nonTx

\* BatchInsert: data[0:firstBatchEnd] (a panic for a negative batch size) and
\* extractBatchFields on it
BatchFields ==
    /\ txCall.op = "BatchInsert"
    /\ txCall.pc = "fields"
    /\ LET firstBatchEnd == Min(txCall.batchSize, Len(txCall.data))
           r == extractBatchFields(SubSeq(txCall.data, 1, firstBatchEnd))
       IN txCall' = IF firstBatchEnd < 0
                    THEN [txCall EXCEPT !.pc = "defer", !.panicked = TRUE]
                    ELSE IF r.err
                    THEN [txCall EXCEPT !.pc = "defer", !.err = TRUE]
                    ELSE [txCall EXCEPT !.pc = "batch", !.fieldCount = r.fieldCount]
    /\ UNCHANGED <<sqlTx, table, txLog, txCalls>>
    /\ UNCHANGED nonTx

\* BatchInsert: one pass of the batch loop. The arguments of the pass are
\* appended to args, which is never emptied, and tx.Exec gets them all.
BatchExec ==
    /\ txCall.op = "BatchInsert"
    /\ txCall.pc = "batch"
    /\ LET end == Min(txCall.i + txCall.batchSize, Len(txCall.data))
           n == end - txCall.i
           args == txCall.args + n * txCall.fieldCount
       IN IF txCall.data[txCall.i + 1] # txCall.fieldCount
          THEN /\ txCall' = [txCall EXCEPT !.pc = "defer", !.err = TRUE]
               /\ UNCHANGED <<sqlTx, txLog>>
          ELSE \E ok \in BOOLEAN :
                  LET r == Exec(sqlTx, n, n * txCall.fieldCount, args, ok)
                  IN /\ sqlTx' = r.tx
                     /\ IF r.err
                        THEN /\ txCall' = [txCall EXCEPT !.pc = "defer", !.err = TRUE,
                                                         !.args = args]
                             /\ UNCHANGED txLog
                        ELSE /\ txCall' = [txCall EXCEPT
                                              !.pc = IF txCall.i + txCall.batchSize <
                                                        Len(txCall.data)
                                                     THEN "batch" ELSE "commit",
                                              !.i = txCall.i + txCall.batchSize,
                                              !.args = args]
                             /\ txLog' = [txLog EXCEPT ![Last].execsOk = @ + 1,
                                                       ![Last].rowsIn = @ + n]
    /\ UNCHANGED <<table, txCalls>>
    /\ UNCHANGED nonTx

\* BatchInsert: tx.Commit() after the loop; a commit error becomes the result
BatchCommit ==
    /\ txCall.op = "BatchInsert"
    /\ txCall.pc = "commit"
    /\ \E ok \in BOOLEAN :
          LET r == Commit(sqlTx, table, ok)
          IN /\ sqlTx' = r.tx
             /\ table' = r.table
             /\ txLog' = [txLog EXCEPT ![Last].commitCalls = @ + 1,
                                       ![Last].persisted = r.table - table]
             /\ txCall' = [txCall EXCEPT !.pc = "defer", !.err = r.err]
    /\ UNCHANGED txCalls
    /\ UNCHANGED nonTx

\* BatchInsert whose deferred function leaves a failed transaction alone
BatchDeferNoRollback ==
    /\ txCall.op = "BatchInsert"
    /\ txCall.pc = "defer"
    /\ TxReturn(txLog[Last], IF txCall.panicked THEN "panic"
                             ELSE IF txCall.err THEN "err" ELSE "nil")
    /\ UNCHANGED <<sqlTx, table, txCalls>>
    /\ UNCHANGED nonTx

\* BatchInsert: the deferred function calls tx.Rollback() after a panic (and
\* panics again) and when the result err is not nil
BatchDefer ==
    /\ txCall.op = "BatchInsert"
    /\ txCall.pc = "defer"
    /\ IF txCall.panicked \/ txCall.err
       THEN \E ok \in BOOLEAN :
               /\ sqlTx' = Rollback(sqlTx, ok).tx
               /\ TxReturn([txLog[Last] EXCEPT !.rollbackCalls = @ + 1],
                           IF txCall.panicked THEN "panic" ELSE "err")
       ELSE /\ TxReturn(txLog[Last], "nil")
            /\ UNCHANGED sqlTx
    /\ UNCHANGED <<table, txCalls>>
    /\ UNCHANGED nonTx

\* sql.Open: no transaction yet, an empty table
InitTx ==
    /\ sqlTx = NoTx
    /\ table = 0
    /\ txCall = NoTxCall
    /\ txCalls = 0
    /\ txLog = <<>>

NextTx ==
    \/ ExecTxBegin
    \/ ExecTxFn
    \/ ExecTxCommit
    \/ ExecTxRollback
    \/ ExecTxRecover
    \/ BatchInsertBegin
    \/ BatchFields
    \/ BatchExec
    \/ BatchCommit
    \/ BatchDefer

(***************************************************************************)
(* DB: the pool statistics collector, the keep-alive goroutine,            *)
(* SetDBMetricsEnable, WithContext and Close                               *)
(***************************************************************************)
NoCollector == [pc |-> "none", why |-> ""]

\* db.ctx is done: the context newMySQL stores is the one of its connection
\* test, cancelled by the deferred cancel() when newMySQL returns; a context
\* given to WithContext is taken to stay live
CtxDone == dbCtx = "ping"

\* the number of the next collector goroutine started
NextCollector == Cardinality({g \in DOMAIN collector : collector[g].pc # "none"})

\* newMySQL: the DB as it is returned, the goroutines started but not yet run
newMySQL(enables) ==
    /\ dbCtx = "ping"
    /\ poolStatsEnabled \in enables
    /\ collector = [g \in 0..MaxSets |->
                       IF g = 0 /\ poolStatsEnabled
                       THEN [pc |-> "spawned", why |-> ""] ELSE NoCollector]
    /\ keepAlive = "spawned"
    /\ poolStatsMutex = ""
    /\ poolStatsStop = "open"
    /\ poolStats = "nil"
    /\ dbWg = 0
    /\ setter = [s \in Setters |-> [pc |-> "idle", enable |-> FALSE, found |-> FALSE]]
    /\ sets = 0
    /\ dbClose = "idle"

\* collectPoolStats: Lock (held until the goroutine returns), wg.Add(1),
\* NewTicker, poolStats.init()
CollectorLock(g) ==
    /\ collector[g].pc = "spawned"
    /\ poolStatsMutex = ""
    /\ poolStatsMutex' = "collector"
    /\ dbWg' = dbWg + 1
    /\ poolStats' = "zero"
    /\ collector' = [collector EXCEPT ![g].pc = "running"]
    /\ UNCHANGED <<dbCtx, poolStatsEnabled, keepAlive, poolStatsStop, setter, sets, dbClose>>
    /\ UNCHANGED nonPool

\* collectPoolStats: the ticker case; the goroutine returns if statistics are
\* off, else it stores db.DB.Stats()
CollectorTick(g) ==
    /\ collector[g].pc = "running"
    /\ IF poolStatsEnabled
       THEN /\ poolStats' = "live"
            /\ UNCHANGED <<collector, poolStatsMutex, dbWg>>
       ELSE /\ collector' = [collector EXCEPT ![g] = [pc |-> "exited", why |-> "disabled"]]
            /\ poolStatsMutex' = ""
            /\ dbWg' = dbWg - 1
            /\ UNCHANGED poolStats
    /\ UNCHANGED <<dbCtx, poolStatsEnabled, keepAlive, poolStatsStop, setter, sets, dbClose>>
    /\ UNCHANGED nonPool

\* collectPoolStats: the cases <-db.poolStatsStop and <-db.ctx.Done():
\* poolStats.init() and return (wg.Done, Unlock)
CollectorDone(g) ==
    /\ collector[g].pc = "running"
    /\ poolStatsStop = "closed" \/ CtxDone
    /\ collector' = [collector EXCEPT
                        ![g] = [pc |-> "exited",
                                why |-> IF poolStatsStop = "closed" THEN "stop" ELSE "ctx"]]
    /\ poolStats' = "zero"
    /\ poolStatsMutex' = ""
    /\ dbWg' = dbWg - 1
    /\ UNCHANGED <<dbCtx, poolStatsEnabled, keepAlive, poolStatsStop, setter, sets, dbClose>>
    /\ UNCHANGED nonPool

\* startKeepAlive: NewTicker, wg.Add(1)
KeepAliveStart ==
    /\ keepAlive = "spawned"
    /\ keepAlive' = "running"
    /\ dbWg' = dbWg + 1
    /\ UNCHANGED <<dbCtx, poolStatsEnabled, collector, poolStatsMutex, poolStatsStop,
                   poolStats, setter, sets, dbClose>>
    /\ UNCHANGED nonPool

\* startKeepAlive: the case <-db.ctx.Done(): return (wg.Done)
KeepAliveExit ==
    /\ keepAlive = "running"
    /\ CtxDone
    /\ keepAlive' = "exited"
    /\ dbWg' = dbWg - 1
    /\ UNCHANGED <<dbCtx, poolStatsEnabled, collector, poolStatsMutex, poolStatsStop,
                   poolStats, setter, sets, dbClose>>
    /\ UNCHANGED nonPool

\* WithContext: db.ctx = ctx; db.cancel still belongs to the first context
WithContext ==
    /\ dbCtx = "ping"
    /\ dbCtx' = "user"
    /\ UNCHANGED <<poolStatsEnabled, collector, keepAlive, poolStatsMutex, poolStatsStop,
                   poolStats, dbWg, setter, sets, dbClose>>
    /\ UNCHANGED nonPool

\* SetDBMetricsEnable(enable) is called: it goes for db.poolStatsMutex
SetDBMetricsEnable(s) ==
    /\ setter[s].pc = "idle"
    /\ sets < MaxSets
    /\ sets' = sets + 1
    /\ \E enable \in BOOLEAN :
          setter' = [setter EXCEPT ![s] = [pc |-> "lock", enable |-> enable,
                                           found |-> poolStatsEnabled]]
    /\ UNCHANGED <<dbCtx, poolStatsEnabled, collector, keepAlive, poolStatsMutex,
                   poolStatsStop, poolStats, dbWg, dbClose>>
    /\ UNCHANGED nonPool

\* SetDBMetricsEnable(enable) with the mutex held, up to close(db.poolStatsStop):
\* nothing if the flag is already as asked, else Store(enable) and either
\* go db.collectPoolStats(...) or ticker.Stop() and close(db.poolStatsStop)
SetEnable(enable) ==
    IF poolStatsEnabled = enable
    THEN UNCHANGED <<poolStatsEnabled, collector, poolStatsStop>>
    ELSE /\ poolStatsEnabled' = enable
         /\ IF enable
            THEN /\ collector' = [collector EXCEPT
                                     ![NextCollector] = [pc |-> "spawned", why |-> ""]]
                 /\ UNCHANGED poolStatsStop
            ELSE /\ poolStatsStop' = "closed"
                 /\ UNCHANGED collector

\* SetDBMetricsEnable(false), after the close: db.poolStatsStop = make(chan
\* struct{}) and poolStats.init()
SetFinish ==
    IF poolStatsStop = "closed"
    THEN /\ poolStatsStop' = "open"
         /\ poolStats' = "zero"
    ELSE UNCHANGED <<poolStatsStop, poolStats>>

\* SetDBMetricsEnable: db.poolStatsMutex.Lock() and the body up to the close
SetLocked(s) ==
    /\ setter[s].pc = "lock"
    /\ poolStatsMutex = ""
    /\ poolStatsMutex' = "setter"
    /\ SetEnable(setter[s].enable)
    /\ setter' = [setter EXCEPT ![s].pc = "locked"]
    /\ UNCHANGED <<dbCtx, keepAlive, poolStats, dbWg, sets, dbClose>>
    /\ UNCHANGED nonPool

\* SetDBMetricsEnable: the rest of the body and the deferred Unlock
SetReturn(s) ==
    /\ setter[s].pc = "locked"
    /\ SetFinish
    /\ poolStatsMutex' = ""
    /\ setter' = [setter EXCEPT ![s].pc = "idle"]
    /\ UNCHANGED <<dbCtx, poolStatsEnabled, collector, keepAlive, dbWg, sets, dbClose>>
    /\ UNCHANGED nonPool

\* DB.Close: db.cancel(), which cancels the context of newMySQL
DBCloseCancel ==
    /\ dbClose = "idle"
    /\ dbClose' = "wait"
    /\ UNCHANGED <<dbCtx, poolStatsEnabled, collector, keepAlive, poolStatsMutex,
                   poolStatsStop, poolStats, dbWg, setter, sets>>
    /\ UNCHANGED nonPool

\* DB.Close: db.wg.Wait() returns, the connections and the log are closed
DBCloseWait ==
    /\ dbClose = "wait"
    /\ dbWg = 0
    /\ dbClose' = "set"
    /\ UNCHANGED <<dbCtx, poolStatsEnabled, collector, keepAlive, poolStatsMutex,
                   poolStatsStop, poolStats, dbWg, setter, sets>>
    /\ UNCHANGED nonPool

\* DB.Close: db.SetDBMetricsEnable(false), up to the close of the channel
DBCloseSet ==
    /\ dbClose = "set"
    /\ poolStatsMutex = ""
    /\ poolStatsMutex' = "close"
    /\ SetEnable(FALSE)
    /\ dbClose' = "locked"
    /\ UNCHANGED <<dbCtx, keepAlive, poolStats, dbWg, setter, sets>>
    /\ UNCHANGED nonPool

\* DB.Close: SetDBMetricsEnable(false) returns, then db.closed.Store(true)
DBCloseDone ==
    /\ dbClose = "locked"
    /\ SetFinish
    /\ poolStatsMutex' = ""
    /\ dbClose' = "closed"
    /\ UNCHANGED <<dbCtx, poolStatsEnabled, collector, keepAlive, dbWg, setter, sets>>
    /\ UNCHANGED nonPool

\* the steps of the goroutines of the DB and of the calls in progress
PoolStep ==
    \/ \E g \in 0..MaxSets : CollectorLock(g)
    \/ \E g \in 0..MaxSets : CollectorDone(g)
    \/ KeepAliveStart
    \/ KeepAliveExit
    \/ \E s \in Setters : SetLocked(s)
    \/ \E s \in Setters : SetReturn(s)
    \/ DBCloseWait
    \/ DBCloseSet
    \/ DBCloseDone

NextPool ==
    \/ PoolStep
    \/ \E g \in 0..MaxSets : CollectorTick(g)
    \/ WithContext
    \/ \E s \in Setters : SetDBMetricsEnable(s)
    \/ DBCloseCancel

(***************************************************************************)
(* Table: HasTotal, Find, FindAll and GetTotal on an object of tablePool   *)
(***************************************************************************)
\* Table.Reset, of the fields the total depends on
Reset == [hasTotal |-> FALSE, total |-> 0, limit |-> 0]

NoFind == [asked |-> FALSE, count |-> 0, ok |-> FALSE, done |-> FALSE, got |-> -1]

\* tablePool before any use: the object is in the pool
InitTable ==
    /\ tab = [f |-> Reset, pooled |-> TRUE]
    /\ tblCall = [pc |-> "idle", err |-> FALSE]
    /\ finds = 0
    /\ tblLog = NoFind

\* DB.Table (DB.M): tablePool.Get(), t.Reset()
Table ==
    /\ tab.pooled
    /\ tab' = [f |-> Reset, pooled |-> FALSE]
    /\ UNCHANGED <<tblCall, finds, tblLog>>
    /\ UNCHANGED nonTable

\* HasTotal(need): t.hasTotal = need
HasTotal ==
    /\ tblCall.pc = "idle"
    /\ ~tab.pooled
    /\ \E need \in BOOLEAN :
          /\ tab.f.hasTotal # need
          /\ tab' = [tab EXCEPT !.f.hasTotal = need]
    /\ UNCHANGED <<tblCall, finds, tblLog>>
    /\ UNCHANGED nonTable

\* a Find or FindAll call enters findAllWithContext with the fields f: the
\* Count query comes first if t.hasTotal
findAllWithContext(f) ==
    /\ tblCall.pc = "idle"
    /\ ~tab.pooled
    /\ finds < MaxFinds
    /\ finds' = finds + 1
    /\ tab' = [tab EXCEPT !.f = f]
    /\ tblCall' = [pc |-> IF f.hasTotal THEN "count" ELSE "query", err |-> FALSE]
    /\ tblLog' = [NoFind EXCEPT !.asked = f.hasTotal]

\* Find: t.limit = 1; t.hasTotal = false; findAllWithContext
Find ==
    /\ findAllWithContext([tab.f EXCEPT !.limit = 1, !.hasTotal = FALSE])
    /\ UNCHANGED nonTable

\* FindAll and FindAllWithContext: findAllWithContext
FindAll ==
    /\ findAllWithContext(tab.f)
    /\ UNCHANGED nonTable

\* findAllWithContext: countTable.Count() on a Table of its own; t.total = total,
\* or the error is returned
FindAllCount ==
    /\ tblCall.pc = "count"
    /\ \/ \E n \in 0..MaxCount :
             /\ tab' = [tab EXCEPT !.f.total = n]
             /\ tblCall' = [tblCall EXCEPT !.pc = "query"]
             /\ tblLog' = [tblLog EXCEPT !.count = n]
       \/ /\ tblCall' = [pc |-> "release", err |-> TRUE]
          /\ UNCHANGED <<tab, tblLog>>
    /\ UNCHANGED finds
    /\ UNCHANGED nonTable

\* findAllWithContext: the SELECT is built, run and scanned; it succeeds or not
FindAllQuery ==
    /\ tblCall.pc = "query"
    /\ \E err \in BOOLEAN : tblCall' = [pc |-> "release", err |-> err]
    /\ UNCHANGED <<tab, finds, tblLog>>
    /\ UNCHANGED nonTable

\* findAllWithContext returns: the deferred t.Release(): t.Reset() and
\* tablePool.Put(t)
Release ==
    /\ tblCall.pc = "release"
    /\ tab' = [f |-> Reset, pooled |-> TRUE]
    /\ tblCall' = [pc |-> "idle", err |-> FALSE]
    /\ tblLog' = [tblLog EXCEPT !.ok = ~tblCall.err, !.done = TRUE]
    /\ UNCHANGED finds
    /\ UNCHANGED nonTable

\* GetTotal on the Table the caller still holds, after its FindAll returned
GetTotal ==
    /\ tblCall.pc = "idle"
    /\ tblLog.done
    /\ tblLog' = [tblLog EXCEPT !.got = IF ~tab.f.hasTotal THEN 0 ELSE tab.f.total]
    /\ UNCHANGED <<tab, tblCall, finds>>
    /\ UNCHANGED nonTable

NextTable ==
    \/ Table
    \/ HasTotal
    \/ Find
    \/ FindAll
    \/ FindAllCount
    \/ FindAllQuery
    \/ Release
    \/ GetTotal

(***************************************************************************)
(* asyncLogger.WithAttrs / WithGroup: a handler derived from the logger    *)
(***************************************************************************)
\* the goroutines that call Handle and Close on the derived handler
DerivedCallers == {"h2"}
DerivedClosers == {"k2"}

\* WithAttrs, WithGroup: a new asyncLogger with the derived sink and the
\* parent's ch, wg, ctx and cancel; closed, total and dropped start at zero and
\* errCh is nil
WithAttrs ==
    /\ ~derived.made
    /\ derived' = [made |-> TRUE, closed |-> FALSE, total |-> 0, dropped |-> 0]
    /\ UNCHANGED <<drainOwner, via>>
    /\ UNCHANGED lvars
    /\ UNCHANGED nonLogs

\* Handle on the derived handler: it starts with the Load of its own closed
DerivedHandleStart(c) ==
    /\ derived.made
    /\ caller[c].pc = "idle"
    /\ nextRec <= MaxLogs
    /\ nextRec' = nextRec + 1
    /\ via' = via \cup {nextRec}
    /\ caller' = [caller EXCEPT ![c] =
                    IF derived.closed
                    THEN [pc |-> "idle", rec |-> nextRec, res |-> "closed",
                          startedClosed |-> TRUE]
                    ELSE [pc |-> "select", rec |-> nextRec, res |-> "none",
                          startedClosed |-> FALSE]]
    /\ UNCHANGED <<ch, chClosed, ctxDone, closed, total, dropped, errCh, errChClosed,
                   process, drain, closer, accepted, acceptOrder, droppedRecs, sunk, drainErrs>>
    /\ UNCHANGED <<derived, drainOwner>>
    /\ UNCHANGED nonLogs

\* Handle on the derived handler after the record was sent: its own total
DerivedHandleSent(c) ==
    /\ caller[c].pc = "sent"
    /\ derived' = [derived EXCEPT !.total = @ + 1]
    /\ caller' = [caller EXCEPT ![c].pc = "idle", ![c].res = "nil"]
    /\ UNCHANGED <<ch, chClosed, ctxDone, closed, total, dropped, errCh, errChClosed,
                   process, drain, closer, nextRec, accepted, acceptOrder, droppedRecs,
                   sunk, drainErrs>>
    /\ UNCHANGED <<drainOwner, via>>
    /\ UNCHANGED nonLogs

\* Handle on the derived handler in the default branch: its own dropped; the
\* send on the nil errCh is never ready, so the inner default runs
DerivedHandleDefault(c) ==
    /\ caller[c].pc = "default"
    /\ derived' = [derived EXCEPT !.dropped = @ + 1]
    /\ caller' = [caller EXCEPT ![c].pc = "idle", ![c].res = "nil"]
    /\ UNCHANGED <<ch, chClosed, ctxDone, closed, total, dropped, errCh, errChClosed,
                   process, drain, closer, nextRec, accepted, acceptOrder, droppedRecs,
                   sunk, drainErrs>>
    /\ UNCHANGED <<drainOwner, via>>
    /\ UNCHANGED nonLogs

\* Close on the derived handler: the Load of its own closed
DerivedCloseLoad(k) ==
    /\ derived.made
    /\ closer[k].pc = "idle"
    /\ closer' = [closer EXCEPT ![k] =
                    [pc |-> IF derived.closed THEN "returned" ELSE "cas",
                     res |-> IF derived.closed THEN [kind |-> "nil", errs |-> <<>>]
                             ELSE NoResult,
                     second |-> (\E j \in Closers : closer[j].pc = "returned")]]
    /\ UNCHANGED <<ch, chClosed, ctxDone, closed, total, dropped, errCh, errChClosed,
                   process, drain, caller, nextRec, accepted, acceptOrder, droppedRecs,
                   sunk, drainErrs>>
    /\ UNCHANGED dvars
    /\ UNCHANGED nonLogs

\* Close on the derived handler: the CompareAndSwap of its own closed
DerivedCloseCas(k) ==
    /\ closer[k].pc = "cas"
    /\ derived' = [derived EXCEPT !.closed = TRUE]
    /\ closer' = [closer EXCEPT ![k] =
                    IF derived.closed
                    THEN [@ EXCEPT !.pc = "returned",
                                   !.res = [kind |-> "closed", errs |-> <<>>]]
                    ELSE [@ EXCEPT !.pc = "closeCh"]]
    /\ UNCHANGED <<ch, chClosed, ctxDone, closed, total, dropped, errCh, errChClosed,
                   process, drain, caller, nextRec, accepted, acceptOrder, droppedRecs,
                   sunk, drainErrs>>
    /\ UNCHANGED <<drainOwner, via>>
    /\ UNCHANGED nonLogs

\* Close on the derived handler: go func() {...}(); the goroutine hands the
\* records it receives to the derived sink
DerivedCloseSpawn(k) ==
    /\ closer[k].pc = "spawn"
    /\ drain' = [pc |-> "loop", rec |-> 0]
    /\ drainOwner' = "derived"
    /\ closer' = [closer EXCEPT ![k].pc = "wait"]
    /\ UNCHANGED <<ch, chClosed, ctxDone, closed, total, dropped, errCh, errChClosed,
                   process, caller, nextRec, accepted, acceptOrder, droppedRecs, sunk,
                   drainErrs>>
    /\ UNCHANGED <<derived, via>>
    /\ UNCHANGED nonLogs

\* Close on the derived handler: case <-done: collectErrors() on the nil errCh
\* takes its default case at once and returns nil
DerivedCloseDone(k) ==
    /\ closer[k].pc = "wait"
    /\ drain.pc = "finished"
    /\ closer' = [closer EXCEPT ![k].pc = "returned", ![k].res = collectErrors(<<>>)]
    /\ UNCHANGED <<ch, chClosed, ctxDone, closed, total, dropped, errCh, errChClosed,
                   process, drain, caller, nextRec, accepted, acceptOrder, droppedRecs,
                   sunk, drainErrs>>
    /\ UNCHANGED dvars
    /\ UNCHANGED nonLogs

\* the steps of one Handle call on the derived handler after its first: the
\* select is the parent's, on the shared channel and context
DerivedHandleStep(c) ==
    \/ HandleSend(c)
    \/ HandleSendClosed(c)
    \/ HandleCtxDone(c)
    \/ HandleFull(c)
    \/ DerivedHandleSent(c)
    \/ DerivedHandleDefault(c)

\* the steps of one Close call on the derived handler
DerivedCloseStep(k) ==
    \/ DerivedCloseLoad(k)
    \/ DerivedCloseCas(k)
    \/ CloseChan(k)
    \/ CloseCancel(k)
    \/ DerivedCloseSpawn(k)
    \/ DerivedCloseDone(k)
    \/ CloseTimeout(k)

\* the sink a record of sunk was written to: process() uses the sink of the
\* handler NewAsyncLogger returned, the drain goroutine that of the handler
\* whose Close started it
SinkOf(e) == IF e.by = "process" THEN "parent" ELSE drainOwner

\* the pipeline used through the logger and through the derived handler
NextLogDerived ==
    \/ WithAttrs
    \/ \E c \in Callers \ DerivedCallers : HandleStart(c)
    \/ \E c \in Callers \ DerivedCallers : HandleStep(c)
    \/ \E c \in DerivedCallers : DerivedHandleStart(c)
    \/ \E c \in DerivedCallers : DerivedHandleStep(c)
    \/ ProcessRecv
    \/ ProcessSinkReturn
    \/ ProcessExit
    \/ \E k \in Closers \ DerivedClosers : CloseStep(k)
    \/ \E k \in DerivedClosers : DerivedCloseStep(k)
    \/ DrainRecv
    \/ DrainSinkReturn
    \/ DrainEnd
    \/ DrainJoin

(***************************************************************************)
(* DB.Close called by several goroutines; the logger is an asyncLogger     *)
(***************************************************************************)
\* the DB is open and no goroutine is in Close; caller k makes the Close call
\* k of the asyncLogger
InitDBClose ==
    /\ dbClosed = FALSE
    /\ dbCloser = [k \in Closers |->
                      [pc |-> "idle", res |-> "none", stop |-> FALSE, second |-> FALSE]]

\* what a DB.Close step leaves alone of the metrics pipeline besides stopChan
DBCloseFrame ==
    /\ UNCHANGED <<buffer, dbMetrics, droppedMetrics, consumer, stopPc, producer, calls,
                   recorded, failed, overwritten, deqd, deqEmpty, enqAfterDeq, atStop>>
    /\ UNCHANGED <<lvars, cvars, rvars, tvars, pvars, qvars, dvars>>

\* DB.Close: if db.closed.Load() { return nil }; else the Stop is deferred
DBCloseLoad(k) ==
    /\ dbCloser[k].pc = "idle"
    /\ dbCloser[k].res = "none"
    /\ dbCloser' = [dbCloser EXCEPT ![k] =
                       [@ EXCEPT !.pc = IF dbClosed THEN "idle" ELSE "open",
                                 !.res = IF dbClosed THEN "nil" ELSE "none",
                                 !.second = (\E j \in Closers : dbCloser[j].pc = "returned")]]
    /\ UNCHANGED <<dbClosed, stopChan>>
    /\ DBCloseFrame

\* DB.Close: db.cancel(), db.wg.Wait(), db.DB.Close(); next the Close of the
\* asyncLogger
DBCloseWaitGroup(k) ==
    /\ dbCloser[k].pc = "open"
    /\ dbWg = 0
    /\ dbCloser' = [dbCloser EXCEPT ![k].pc = "logger"]
    /\ UNCHANGED <<dbClosed, stopChan>>
    /\ DBCloseFrame

\* DB.Close: handler.Close() on the asyncLogger, step by step
DBCloseLogger(k) ==
    /\ dbCloser[k].pc = "logger"
    /\ CloseStep(k)

\* DB.Close: the asyncLogger's Close has returned; SetDBMetricsEnable(false)
\* with statistics off, the caches are cleared, db.closed.Store(true)
DBCloseStore(k) ==
    /\ dbCloser[k].pc = "logger"
    /\ closer[k].pc = "returned"
    /\ dbClosed' = TRUE
    /\ dbCloser' = [dbCloser EXCEPT ![k].pc = "stop",
                                    ![k].res = IF closer[k].res.kind = "nil"
                                                  \/ closer[k].res = collectErrors(<<>>)
                                               THEN "nil" ELSE "err"]
    /\ UNCHANGED stopChan
    /\ DBCloseFrame

\* DB.Close returns: the deferred asyncDBMetrics.Stop(): close(am.stopChan);
\* closing a closed channel panics
DBCloseStop(k) ==
    /\ dbCloser[k].pc = "stop"
    /\ stopChan' = "closed"
    /\ dbCloser' = [dbCloser EXCEPT ![k] =
                       IF stopChan = "closed"
                       THEN [@ EXCEPT !.pc = "panicked", !.res = "panic", !.stop = TRUE]
                       ELSE [@ EXCEPT !.pc = "stopWait", !.stop = TRUE]]
    /\ UNCHANGED dbClosed
    /\ DBCloseFrame

\* the deferred Stop(): am.wg.Wait() returns once the consumer has exited
DBCloseReturn(k) ==
    /\ dbCloser[k].pc = "stopWait"
    /\ consumer.pc = "exited"
    /\ dbCloser' = [dbCloser EXCEPT ![k].pc = "returned"]
    /\ UNCHANGED <<dbClosed, stopChan>>
    /\ DBCloseFrame

\* DB.Close called by the goroutines of Closers, no record being logged and
\* no metric recorded
NextDBClose ==
    \/ \E k \in Closers : DBCloseLoad(k)
    \/ \E k \in Closers : DBCloseWaitGroup(k)
    \/ \E k \in Closers : DBCloseLogger(k)
    \/ \E k \in Closers : DBCloseStore(k)
    \/ \E k \in Closers : DBCloseStop(k)
    \/ \E k \in Closers : DBCloseReturn(k)
    \/ ConsumerSelect
    \/ ConsumerDequeue
    \/ ProcessExit
    \/ DrainEnd
    \/ DrainJoin

(***************************************************************************)
(* Specifications                                                          *)
(***************************************************************************)
NextMetrics ==
    \/ \E p \in Producers : RecordError(p)
    \/ \E p \in Producers : RecordSlowQuery(p)
    \/ \E p \in Producers : RecordQueryDuration(p)
    \/ \E p \in Producers : CountDropped(p)
    \/ \E p \in Producers : RecordAffectedRows(p)
    \/ ConsumerSelect
    \/ ConsumerDequeue
    \/ ConsumerApply
    \/ StopClose
    \/ StopWait

\* the metrics pipeline at work, the other subsystems at rest; capacities
\* 1..MaxCap, and one that the producers cannot fill
InitMetrics ==
    /\ InitMetricsWith(1..MaxCap \cup {MaxRecords})
    /\ InitLog
    /\ newShardedCache({1})
    /\ NewRotatingFileHandler({NoFiles}, {TRUE}, {0})
    /\ InitTx
    /\ newMySQL({FALSE})
    /\ InitTable
    /\ InitDBClose

SpecMetrics == InitMetrics /\ [][NextMetrics]_vars

\* the metrics pipeline with callers of ResetDBMetrics as well
NextMetricsReset ==
    \/ NextMetrics
    \/ \E p \in Resetters : ResetDBMetrics(p)
    \/ \E p \in Resetters : ResetStore(p)

SpecMetricsReset == InitMetrics /\ [][NextMetricsReset]_vars

\* ExecTx and BatchInsert calls one after the other, the other subsystems at
\* rest
InitTxs ==
    /\ InitMetricsWith({1})
    /\ InitLog
    /\ newShardedCache({1})
    /\ NewRotatingFileHandler({NoFiles}, {TRUE}, {0})
    /\ InitTx
    /\ newMySQL({FALSE})
    /\ InitTable
    /\ InitDBClose

SpecTx == InitTxs /\ [][NextTx]_vars

\* one DB from newMySQL, with EnablePoolStats on or off, the other subsystems
\* at rest; each goroutine and each call in progress takes its next step when
\* it can
InitPool ==
    /\ InitMetricsWith({1})
    /\ InitLog
    /\ newShardedCache({1})
    /\ NewRotatingFileHandler({NoFiles}, {TRUE}, {0})
    /\ InitTx
    /\ newMySQL(BOOLEAN)
    /\ InitTable
    /\ InitDBClose

SpecPool == InitPool /\ [][NextPool]_vars /\ WF_vars(PoolStep)

\* DB.Close called concurrently
SpecDBClose == InitTxs /\ [][NextDBClose]_vars

\* one goroutine using a Table of the pool, the other subsystems at rest
SpecTable == InitTxs /\ [][NextTable]_vars

(***************************************************************************)
(* The ringBuffer on its own: any interleaving of Enqueue and Dequeue      *)
(* calls, the items being the closures numbered 1, 2, ...                  *)
(***************************************************************************)
RingEnqueue ==
    /\ Len(recorded) < MaxItems
    /\ DoEnqueue([id |-> NextId, kind |-> "error", qt |-> "", d |-> 0])
    /\ UNCHANGED <<dbMetrics, droppedMetrics, stopChan, consumer, stopPc, producer,
                   calls, deqd, atStop>>
    /\ UNCHANGED nonMetrics

RingDequeue ==
    /\ DoDequeue
    /\ UNCHANGED <<dbMetrics, droppedMetrics, stopChan, consumer, stopPc, producer,
                   calls, atStop>>
    /\ UNCHANGED nonMetrics

NextRing == RingEnqueue \/ RingDequeue

\* the ring buffer at work, the other subsystems at rest
InitRing ==
    /\ InitMetricsWith(1..MaxCap)
    /\ InitLog
    /\ newShardedCache({1})
    /\ NewRotatingFileHandler({NoFiles}, {TRUE}, {0})
    /\ InitTx
    /\ newMySQL({FALSE})
    /\ InitTable
    /\ InitDBClose

SpecRing == InitRing /\ [][NextRing]_vars

(***************************************************************************)
(* The log pipeline: Handle callers, the process() goroutine, Close callers *)
(* and the goroutine Close starts.  The sink may take any time to return.  *)
(***************************************************************************)
\* the log pipeline at work, the other subsystems at rest
InitLogger ==
    /\ InitMetricsWith({1})
    /\ InitLog
    /\ newShardedCache({1})
    /\ NewRotatingFileHandler({NoFiles}, {TRUE}, {0})
    /\ InitTx
    /\ newMySQL({FALSE})
    /\ InitTable
    /\ InitDBClose

SpecLog == InitLogger /\ [][NextLog]_vars

\* the same pipeline with a handler derived by WithAttrs or WithGroup
SpecLogDerived == InitLogger /\ [][NextLogDerived]_vars

\* Close runs on a goroutine the scheduler keeps running, and its timer fires;
\* nothing is assumed of the sink, which may never return
SpecLogLive ==
    InitLogger /\ [][NextLogLive]_vars /\ \A k \in Closers : WF_vars(CloseStep(k))

(***************************************************************************)
(* The cache: tasks calling Get, Set, Delete, Clear and Stats concurrently *)
(***************************************************************************)
\* the cache at work, the other subsystems at rest
InitCache ==
    /\ InitMetricsWith({1})
    /\ InitLog
    /\ newShardedCache(1..MaxShards)
    /\ NewRotatingFileHandler({NoFiles}, {TRUE}, {0})
    /\ InitTx
    /\ newMySQL({FALSE})
    /\ InitTable
    /\ InitDBClose

SpecCache == InitCache /\ [][NextCache]_vars

\* every goroutine inside a call is scheduled again
SpecCacheLive ==
    InitCache /\ [][NextCacheLive]_vars /\ \A t \in Tasks : WF_vars(TaskStep(t))

(***************************************************************************)
(* The rotating log file: goroutines calling Write, the sink path Handle,  *)
(* Close, the retention sweep, and the clock.                              *)
(***************************************************************************)
InitRot ==
    /\ InitMetricsWith({1})
    /\ InitLog
    /\ newShardedCache({1})
    /\ NewRotatingFileHandler({NoFiles}, BOOLEAN, {0, 2})
    /\ InitTx
    /\ newMySQL({FALSE})
    /\ InitTable
    /\ InitDBClose

SpecRot == InitRot /\ [][NextRot]_vars

\* directory entries found by a retention sweep: a log of the day before, a
\* log of another base name, a malformed date, no date part, a dated name with
\* a second suffix, and a directory named like a log
OtherEntries ==
    {<<"db", "_", DateString(2), ".log">>,
     <<"db", "x", "_", DateString(2), ".log">>,
     <<"db", "_", "bad", ".log">>,
     <<"db", ".log">>,
     <<"db", "_", DateString(2), ".log", "_", "old", ".log">>,
     <<"db", "_", DateString(8), ".log">>}

\* the directories made of some of these entries, each last modified the day
\* before the handler was built or at the time it was built
Directories ==
    UNION {[names -> {[mtime |-> t, isDir |-> FALSE] : t \in {2, 4}}] :
              names \in SUBSET (OtherEntries \ {<<"db", "_", DateString(8), ".log">>})}
    \cup {[n \in {<<"db", "_", DateString(8), ".log">>} |-> [mtime |-> 2, isDir |-> TRUE]]}

InitSweep ==
    /\ InitMetricsWith({1})
    /\ InitLog
    /\ newShardedCache({1})
    /\ NewRotatingFileHandler(Directories, {TRUE}, {0, 2})
    /\ InitTx
    /\ newMySQL({FALSE})
    /\ InitTable
    /\ InitDBClose

SpecSweep == InitSweep /\ [][NextSweep]_vars

(***************************************************************************)
(* Claims about the ring buffer and the metrics pipeline                   *)
(***************************************************************************)
\* ids of the closures the ring holds
InBuffer == {Contents(buffer)[i].id : i \in 1..buffer.count}

\* ids of the closures Dequeue has returned
Dequeued == {deqd[i] : i \in 1..Len(deqd)}

\* ids of the closures the consumer has applied to the aggregator
Applied == Dequeued \ (IF consumer.pc = "apply" THEN {consumer.item.id} ELSE {})

\* The producers made their calls (RecordError only, `calls` of them: N*M), all
\* had returned when Stop() was called, the ring has room for all the calls,
\* and Stop() has returned.
ErrorsScenario ==
    /\ stopPc = "returned"
    /\ atStop.idle
    /\ atStop.calls = calls
    /\ calls >= 1
    /\ Len(recorded) = calls
    /\ \A i \in 1..Len(recorded) : recorded[i].kind = "error"
    /\ buffer.size >= calls

\* C1 as stated: after the producers returned and Stop() then returned, the
\* error counter equals the number N*M of RecordError calls (the ring buffer
\* having room for all of them).
C1_ErrorsExactAfterStop == ErrorsScenario => dbMetrics.errors = calls

\* C1 amended: in that scenario no Enqueue failed and the error counter equals
\* N*M minus the number of closures still queued, which Stop() leaves unapplied
\* in the ring buffer.
C1_ErrorsMissQueuedAfterStop ==
    ErrorsScenario =>
        /\ failed = {}
        /\ consumer.pc = "exited"
        /\ dbMetrics.errors = calls - buffer.count

C1_Witness ==
    /\ ErrorsScenario
    /\ calls = MaxRecords
    /\ buffer.count >= 1
    /\ dbMetrics.errors >= 1

\* C2: capacity C, C+k items (k >= 1) enqueued with no Dequeue in between, then
\* Dequeue until it reports empty: the items returned are the last C enqueued,
\* in enqueue order.
C2_RingKeepsLastItems ==
    (~enqAfterDeq /\ deqEmpty /\ Len(recorded) > buffer.size) =>
        deqd = [i \in 1..buffer.size |-> Len(recorded) - buffer.size + i]

C2_Witness ==
    /\ ~enqAfterDeq
    /\ deqEmpty
    /\ buffer.size = 2
    /\ Len(recorded) = 4
    /\ deqd = <<3, 4>>

\* C3 as stated: a closure whose Enqueue failed on a full ring buffer is never
\* applied to the aggregator.
C3_FailedClosureNeverApplied == failed \cap Applied = {}

\* what holds of the closures whose Enqueue failed, in every state
FailedClosuresKept ==
    /\ failed \subseteq (InBuffer \cup Dequeued \cup overwritten)
    /\ overwritten \cap (InBuffer \cup Dequeued) = {}
    /\ Cardinality(overwritten) = Cardinality(failed)
    /\ droppedMetrics =
          Cardinality(failed) - Cardinality({p \in Producers : producer[p] = "dropped"})

\* what a recordMetric call whose Enqueue fails does to the ring
FailedEnqueueStep ==
    \A p \in Producers :
        (producer[p] = "idle" /\ producer'[p] = "dropped") =>
            /\ buffer.count = buffer.size
            /\ Contents(buffer') =
                  Append(Tail(Contents(buffer)), recorded'[Len(recorded')])

\* C3 amended: a recordMetric call whose Enqueue fails finds the ring full and
\* leaves it holding the closures it held minus the oldest, with the closure of
\* the call as the newest. So a closure whose Enqueue failed was stored all the
\* same (it is in the ring, or was dequeued since, or was overwritten in turn);
\* what each failing Enqueue discards is the oldest queued closure, which is
\* never dequeued; droppedMetrics counts the failing calls that have returned.
C3_FailedClosureReplacesOldest == [] FailedClosuresKept /\ [][FailedEnqueueStep]_vars

C3_Witness ==
    /\ failed \cap Applied # {}
    /\ overwritten # {}
    /\ droppedMetrics >= 1

\* C4: Stop() returns only after the consumer has exited, and once Stop() has
\* returned the aggregator (counters and per-type durations) never changes.
C4_NoMutationAfterStop ==
    stopPc = "returned" =>
        /\ consumer.pc = "exited"
        /\ dbMetrics = atStop.metrics

(***************************************************************************)
(* Claims about the log pipeline                                           *)
(***************************************************************************)
\* number of Handle calls standing at the given place
InFlight(pc) == Cardinality({c \in Callers : caller[c].pc = pc})

\* records buffered in al.ch, and records the sink was invoked with
Buffered == {ch[i] : i \in 1..Len(ch)}
SunkRecs == {sunk[i].rec : i \in 1..Len(sunk)}
SunkCount(r) == Cardinality({i \in 1..Len(sunk) : sunk[i].rec = r})

\* the error value returned is nil
IsNil(res) == res.kind = "nil" \/ (res.kind = "collected" /\ res.errs = <<>>)

\* C5: while the pipeline is open (Close has not set al.closed) every Handle
\* call returns nil, is never blocked, and increments exactly one counter by
\* one: total if its record was placed in the channel (which had room),
\* dropped if the channel was full, and then the record is not enqueued.
C5_HandleCountsOnce ==
    ~closed =>
        /\ \A c \in Callers :
              /\ caller[c].res \in {"none", "nil"}
              /\ caller[c].pc # "idle" => ENABLED HandleStep(c)
              /\ (caller[c].pc = "select" /\ Len(ch) < ChanCap) => ~ENABLED HandleFull(c)
              /\ (caller[c].pc = "select" /\ Len(ch) >= ChanCap) => ~ENABLED HandleSend(c)
        /\ total = Cardinality(accepted) - InFlight("sent")
        /\ dropped = Cardinality(droppedRecs) - InFlight("default")
        /\ total + dropped = (nextRec - 1) - Cardinality({c \in Callers : caller[c].pc # "idle"})
        /\ accepted \cap droppedRecs = {}
        /\ droppedRecs \cap (Buffered \cup SunkRecs) = {}

C5_Witness ==
    /\ ~closed
    /\ total >= 1
    /\ dropped >= 1
    /\ \A c \in Callers : caller[c].pc = "idle" /\ caller[c].res = "nil"

\* C6 as stated: when Close() is called a second time after a first call has
\* returned, both calls return nil (a first call that ran into its timeout is
\* left aside here).
C6_CloseTwiceBothNil ==
    \A k \in Closers :
        (closer[k].second /\ closer[k].pc = "returned") =>
            \A j \in Closers :
                (closer[j].pc = "returned" /\ closer[j].res.kind # "timeout") =>
                    IsNil(closer[j].res)

\* C6 amended: a Close() call made after another Close() has returned returns
\* nil from the al.closed check, its first step, and does nothing else (no
\* close of the channel, no cancel, no drain, no wait); the first call returns
\* what collectErrors found, or the timeout error, which need not be nil.
C6_SecondCloseIsNoOp ==
    \A k \in Closers :
        closer[k].second => (closer[k].pc = "returned" /\ closer[k].res.kind = "nil")

C6_Witness ==
    \E k, j \in Closers :
        /\ closer[k].second
        /\ closer[k].pc = "returned"
        /\ closer[j].res.kind = "collected"
        /\ closer[j].res.errs # <<>>

\* C7: the sink is never invoked twice with one record, nor with a record that
\* was not accepted, and once process() has exited and the drain loop of
\* Close() has ended every accepted record has been passed to the sink: exactly
\* once each.
C7_AcceptedDeliveredOnce ==
    /\ \A r \in 1..(nextRec - 1) : SunkCount(r) <= 1
    /\ SunkRecs \subseteq accepted
    /\ (process.pc = "exited" /\ drain.pc \in {"waitwg", "finished"}) =>
          \A r \in accepted : SunkCount(r) = 1

C7_Witness ==
    /\ process.pc = "exited"
    /\ drain.pc = "finished"
    /\ \E i, j \in 1..Len(sunk) : sunk[i].by = "process" /\ sunk[j].by = "drain"

\* C8: when Close() returns what collectErrors gathered, that includes the
\* error of every record whose handling by the sink failed during the drain.
C8_DrainErrorsReturned ==
    \A k \in Closers :
        closer[k].res.kind = "collected" =>
            drainErrs \subseteq {closer[k].res.errs[i] : i \in 1..Len(closer[k].res.errs)}

\* C9: a Handle call that starts once Close() has set al.closed returns the
\* "closed" error at once; its record is neither placed in the channel nor
\* counted as dropped, and total and dropped count only the records that were.
C9_HandleAfterCloseRefused ==
    /\ \A c \in Callers :
          caller[c].startedClosed =>
              /\ caller[c].pc = "idle"
              /\ caller[c].res = "closed"
              /\ caller[c].rec \notin (accepted \cup droppedRecs \cup Buffered)
    /\ total = Cardinality(accepted) - InFlight("sent")
    /\ dropped = Cardinality(droppedRecs) - InFlight("default")

C9_Witness ==
    \E c \in Callers :
        /\ caller[c].startedClosed
        /\ caller[c].res = "closed"
        /\ total >= 1

\* C10: a Close() call that has started returns, whatever the sink and the
\* other goroutines do; a call that returns while process() has not exited
\* returns the "shutdown timeout" error (or comes from the al.closed guards of
\* a repeated call).
C10_CloseAlwaysReturns ==
    /\ \A k \in Closers : (closer[k].pc # "idle") ~> (closer[k].pc = "returned")
    /\ [](\A k \in Closers :
            (closer[k].pc = "returned" /\ process.pc # "exited") =>
                closer[k].res.kind \in {"timeout", "nil", "closed"})

C10_Witness ==
    \E k \in Closers :
        /\ closer[k].pc = "returned"
        /\ closer[k].res.kind = "timeout"
        /\ process.pc = "handling"

\* Two Handle calls were made on the open pipeline and both have returned.
TwoHandleCalls ==
    /\ ~closed
    /\ nextRec = 3
    /\ \A c \in Callers : caller[c].pc = "idle"

\* C11 as stated: channel capacity 1 and a slow sink; two Handle calls issued
\* back to back both return without blocking, and once the consumer has taken
\* the first record out of the channel the dropped counter equals 1.
C11_SecondCallDropped ==
    (ChanCap = 1 /\ TwoHandleCalls /\ SunkRecs # {}) =>
        /\ \A c \in Callers : caller[c].res \in {"nil", "none"}
        /\ dropped = 1

\* a Handle call leaves its select by the default branch
DropStep(c) == caller[c].pc = "select" /\ caller'[c].pc = "default"

\* C11 amended: the two calls return nil without blocking and each is counted
\* once; a call is dropped only if its select finds the channel full, so at
\* least min(capacity, 2) of the two records are accepted and dropped is 0 when
\* process() had received the first record before the second call's select,
\* 1 (capacity 1) when it had not.
C11_DroppedOnlyWhenFull ==
    /\ [](TwoHandleCalls =>
            /\ \A c \in Callers : caller[c].res \in {"nil", "none"}
            /\ total + dropped = 2
            /\ total = Cardinality(accepted)
            /\ total >= (IF ChanCap < 2 THEN ChanCap ELSE 2))
    /\ [][\A c \in Callers : DropStep(c) => (Len(ch) = ChanCap /\ ch' = ch)]_vars

C11_Witness ==
    /\ TwoHandleCalls
    /\ process.pc = "handling"
    /\ process.rec = 1
    /\ ch = <<2>>
    /\ dropped = 0
    /\ total = 2

\* C12: the sink is used by one task at a time (the invocation made by
\* process() and the one made by the goroutine of Close() never overlap), and
\* the records reach the sink in the order they were accepted.
C12_SinkSerialInOrder ==
    /\ ~(process.pc = "handling" /\ drain.pc = "handling")
    /\ \A i \in 1..Len(sunk) : sunk[i].rec = acceptOrder[i]

(***************************************************************************)
(* Claims about the sharded cache                                          *)
(***************************************************************************)
\* the value a Get has found and is about to return
GetFound(t) ==
    task[t].op = "Get" /\ task[t].pc \in {"lruLock", "lruLockWait", "lruLocked", "hit"}

InMap(k) == k \in DOMAIN shards[hash(k)].m

\* no entry is lost: a value set and not deleted or cleared since is in the
\* plain map of its shard (looked at while no writer holds the shard)
NoEntryLost ==
    \A k \in Keys :
        (shards[hash(k)].mu.writer = "" /\ written[k] # NoValue) =>
            (InMap(k) /\ shards[hash(k)].m[k] = written[k])

\* what the steps of a Get do for a key that is in the plain map
GetOfMappedKey(t) ==
    LET i == task[t].idx
        k == task[t].key
    IN /\ (task[t].pc = "lruGet" /\ task'[t].pc # "lruGet" /\ k \in DOMAIN shards[i].m) =>
             /\ task'[t].pc \in {"hit", "lruLock"}
             /\ task'[t].found
             /\ task'[t].val = shards[i].m[k]
       /\ (task[t].op = "Get" /\ task[t].pc = "lruLocked" /\ task'[t].pc # "lruLocked") =>
             /\ task'[t].pc = "hit"
             /\ Len(lruCaches'[i]) <= LruSize
             /\ lruCaches'[i][1] = [key |-> k, value |-> task[t].val]
       /\ (task[t].pc = "hit" /\ task'[t].pc = "idle") =>
             /\ shards'[i].hits = shards[i].hits + 1
             /\ shards'[i].misses = shards[i].misses

\* C14: a key that is in its shard's plain map but was evicted from the
\* shard's LRU is still found by Get, with its value; the Get counts a hit and
\* puts the key back into the LRU; no entry is lost to capacity pressure, and
\* every Set ends with its value stored.
C14_EvictedKeyStillFound ==
    /\ []NoEntryLost
    /\ [][\A t \in Tasks : GetOfMappedKey(t)]_vars

C14_Witness ==
    \E t \in Tasks :
        /\ task[t].op = "Get"
        /\ task[t].pc = "lruLocked"
        /\ InMap(task[t].key)
        /\ ~lruContains(lruCaches[task[t].idx], task[t].key)
        /\ Len(lruCaches[task[t].idx]) = LruSize

\* the task is inside a call and cannot take its next step
Blocked(t) == task[t].pc # "idle" /\ ~ENABLED TaskStep(t)

\* the tasks holding (as readers or as announced writer) the lock t is at
Holders(t) ==
    LET mu == IF task[t].pc \in {"rlock", "lock", "lockWait"}
              THEN shards[task[t].idx].mu
              ELSE lruLocks[task[t].idx]
    IN (mu.readers \cup (IF mu.writer = "" THEN {} ELSE {mu.writer})) \ {t}

\* the shard a task is working on
ShardOf(t) == IF task[t].op \in {"Get", "Set", "Delete"} THEN hash(task[t].key) ELSE task[t].idx

\* C15: under any interleaving of Get, Set, Delete, Clear and Stats calls no
\* deadlock is reachable (while some call is in progress some task can step),
\* every call returns, and a Get, Set or Delete waits only for tasks working
\* on the shard of its own key: never for a Get, Set or Delete on a key of
\* another shard, never for Stats.
C15_NoDeadlockNoCrossShardWait ==
    /\ \A t \in Tasks : (task[t].pc # "idle") ~> (task[t].pc = "idle")
    /\ []((\E t \in Tasks : task[t].pc # "idle") => (\E t \in Tasks : ENABLED TaskStep(t)))
    /\ [](\A t \in Tasks :
            (task[t].op \in {"Get", "Set", "Delete"} /\ Blocked(t)) =>
                /\ Holders(t) # {}
                /\ \A u \in Holders(t) :
                      /\ task[u].pc # "idle"
                      /\ task[u].op # "Stats"
                      /\ ShardOf(u) = ShardOf(t))

C15_Witness ==
    \E t, u \in Tasks :
        /\ shardCount = 2
        /\ task[t].op = "Get"
        /\ Blocked(t)
        /\ task[u].op = "Clear"
        /\ u \in Holders(t)

\* the keys a shard holds, in its plain map or in its LRU
KeysIn(i) == DOMAIN shards[i].m \cup {lruCaches[i][j].key : j \in 1..Len(lruCaches[i])}

\* C16: the shard index of a key is within [0, shardCount), is the same every
\* time it is computed during the cache's life (shardCount never changes), and
\* an entry for a key is only ever in the shard of that index, in the plain
\* map and in the LRU alike, never in another shard.
C16_EntryOnlyInItsShard ==
    /\ [](/\ shardCount \in 1..MaxShards
          /\ DOMAIN shards = 0..(shardCount - 1)
          /\ \A k \in Keys : hash(k) \in 0..(shardCount - 1)
          /\ \A t \in Tasks :
                task[t].op \in {"Get", "Set", "Delete"} => task[t].idx = hash(task[t].key)
          /\ \A i \in DOMAIN shards : \A k \in KeysIn(i) : hash(k) = i
          /\ \A i, j \in DOMAIN shards : i # j => KeysIn(i) \cap KeysIn(j) = {})
    /\ [][shardCount' = shardCount]_vars

C16_Witness ==
    /\ shardCount = 2
    /\ KeysIn(0) = {"a"}
    /\ KeysIn(1) = {"d"}
    /\ lruCaches[0] # <<>>
    /\ lruCaches[1] # <<>>

(***************************************************************************)
(* Claims about the rotating log file                                      *)
(***************************************************************************)
\* C17: with rotation enabled (and Close not called) a record passed to
\* Handle is written, and to the file named for the wall-clock date at the
\* time of the write; after a date change that is the new day's file.
C17_HandleWritesTodaysFile ==
    (logRotationEnabled /\ closes = 0 /\ lastWrite.by = "Handle") =>
        /\ lastWrite.ok
        /\ lastWrite.file = DatedName(DateString(lastWrite.at))

\* C18 as stated: with rotation enabled, after a successful Write currentDate
\* equals the wall-clock date at the time the bytes were written and the
\* bytes are in the file of that date; with rotation disabled the one file
\* {base}.log stays open whatever the date.
C18_WriteOnWallClockDate ==
    /\ (logRotationEnabled /\ lastWrite.by = "Write" /\ lastWrite.ok) =>
          /\ lastWrite.currentDate = DateString(lastWrite.at)
          /\ lastWrite.file = DatedName(DateString(lastWrite.at))
    /\ (~logRotationEnabled /\ closes = 0) =>
          /\ nextFd = 2
          /\ currentFile = 1
          /\ DOMAIN openFiles = {1}
          /\ openFiles[1].name = PlainName

\* what Write's date check leaves behind when it reports no error
CheckedDate(w) ==
    (writer[w].pc = "idle" /\ writer'[w].pc = "opened") =>
        /\ currentFile' \in DOMAIN openFiles'
        /\ IF logRotationEnabled
           THEN /\ currentDate' = DateString(now)
                /\ openFiles'[currentFile'].name = DatedName(DateString(now))
           ELSE /\ currentDate' = ""
                /\ openFiles'[currentFile'].name = PlainName

\* C18 amended: with rotation enabled, the date check of a Write that goes on
\* leaves currentDate equal to the wall-clock date and the file of that date
\* open; when the bytes are written currentDate is the date some Write's check
\* read between this Write's check and the write (so it is behind the clock
\* if the date changes in between), and the bytes go to the file opened for
\* currentDate. With rotation disabled the one file {base}.log is opened once
\* and no date change closes or reopens it.
C18_WriteOnCheckedDate ==
    /\ [](/\ (logRotationEnabled /\ lastWrite.by = "Write" /\ lastWrite.ok) =>
                /\ lastWrite.currentDate \in
                      {DateString(t) : t \in lastWrite.sampled..lastWrite.at}
                /\ lastWrite.file = DatedName(lastWrite.currentDate)
          /\ (~logRotationEnabled /\ lastWrite.by = "Write" /\ lastWrite.ok) =>
                lastWrite.file = PlainName
          /\ (~logRotationEnabled /\ closes = 0) =>
                /\ nextFd = 2
                /\ currentFile = 1
                /\ DOMAIN openFiles = {1}
                /\ openFiles[1].name = PlainName)
    /\ [][\A w \in Writers : CheckedDate(w)]_vars

C18_Witness ==
    /\ logRotationEnabled
    /\ lastWrite.by = "Write"
    /\ lastWrite.ok
    /\ lastWrite.currentDate = DateString(MaxNow)
    /\ lastWrite.sampled < lastWrite.at
    /\ nextFd > 2

\* C19: while rotation is enabled, from construction until Close() is called
\* exactly one log file is open, across date changes too.
C19_OneOpenFile ==
    (logRotationEnabled /\ closes = 0) => Cardinality(DOMAIN openFiles) = 1

\* a name of the form {baseName}_{YYYY-MM-DD}.log
DatedLogName(name) == \E t \in 2..19 : name = DatedName(DateString(t))

\* C20: a retention sweep removes exactly the regular files named
\* {baseName}_{YYYY-MM-DD}.log whose modification time is before now - maxAge,
\* and no other entry of the directory.
C20_SweepRemovesExpiredLogsOnly ==
    swept.done =>
        fs = Without(swept.before,
                     {n \in DOMAIN swept.before :
                         /\ ~swept.before[n].isDir
                         /\ DatedLogName(n)
                         /\ swept.before[n].mtime < swept.cutoffTime})

\* the log of the day before the handler was built
Yesterday == DatedName(DateString(2))

\* C21: rotation enabled, maxAge = 0 and a log file dated yesterday (and last
\* modified yesterday) in the directory: after a retention sweep run on the
\* day of the handler's current file, yesterday's file is gone and the file
\* dated today, the one open for writing, is still in the directory.
C21_SweepKeepsTodaysFile ==
    (/\ swept.done
     /\ logRotationEnabled
     /\ maxAge = 0
     /\ Yesterday \in DOMAIN swept.before
     /\ DateString(swept.before[Yesterday].mtime) = DateString(2)
     /\ currentDate = DateString(swept.cutoffTime)) =>
        /\ Yesterday \notin DOMAIN fs
        /\ DatedName(currentDate) \in DOMAIN fs

\* C22: the dropped counter equals the number of recordMetric calls whose
\* Enqueue found the ring buffer full (a call counting from its
\* droppedMetrics.Add(1)); no step, ResetDBMetrics included, decreases it; and
\* while nothing has been dequeued, n > C recordings into a buffer of capacity
\* C leave it at n - C.
C22_DroppedCountsFullEnqueues ==
    /\ [](droppedMetrics =
             Cardinality(failed) - Cardinality({p \in Producers : producer[p] = "dropped"}))
    /\ [][droppedMetrics' >= droppedMetrics]_vars
    /\ []((/\ Len(deqd) = 0
           /\ Len(recorded) > buffer.size
           /\ \A p \in Producers : producer[p] # "dropped") =>
             droppedMetrics = Len(recorded) - buffer.size)

\* a closure was applied and the aggregator is all zero: a reset has run
C22_Witness ==
    /\ droppedMetrics >= 1
    /\ Applied # {}
    /\ dbMetrics = newDBMetrics
    /\ \A p \in Producers : producer[p] = "idle"

\* C23: the consumer applies the closures in the order in which their Enqueue
\* calls took effect and each at most once (the closure it is applying is the
\* last one dequeued, and the ids dequeued increase), and a closure
\* overwritten while the buffer was full is never dequeued, so never applied.
C23_AppliedInEnqueueOrder ==
    /\ \A i, j \in 1..Len(deqd) : i < j => deqd[i] < deqd[j]
    /\ overwritten \cap Dequeued = {}
    /\ consumer.pc = "apply" =>
          /\ Len(deqd) >= 1
          /\ consumer.item = recorded[deqd[Len(deqd)]]
    /\ consumer.pc # "apply" => consumer.item = NoItem

C23_Witness ==
    /\ Len(deqd) = 2
    /\ Cardinality(Applied) = 2
    /\ overwritten # {}

\* C24: every recording call (RecordQueryDuration, RecordError,
\* RecordSlowQuery, RecordAffectedRows) hands one closure to Enqueue and
\* leaves the aggregator as it is; the aggregator changes only in the step in
\* which the consumer applies a closure.
C24_OnlyConsumerMutates ==
    [][/\ calls' # calls =>
             /\ Len(recorded') = Len(recorded) + 1
             /\ dbMetrics' = dbMetrics
       /\ dbMetrics' # dbMetrics =>
             /\ consumer.pc = "apply"
             /\ consumer'.pc = "select"]_vars

\* C25: in every state of a ringBuffer of capacity C >= 1, whatever the
\* interleaving of Enqueue and Dequeue calls, 0 <= count <= C and
\* 0 <= head, tail < C; an Enqueue on a full buffer advances head and tail by
\* one modulo C and leaves count at C.
C25_RingIndicesInRange ==
    /\ [](/\ buffer.size >= 1
          /\ buffer.count \in 0..buffer.size
          /\ buffer.head \in 0..(buffer.size - 1)
          /\ buffer.tail \in 0..(buffer.size - 1)
          /\ DOMAIN buffer.buffer = 0..(buffer.size - 1))
    /\ [][(Len(recorded') > Len(recorded) /\ buffer.count = buffer.size) =>
             /\ buffer'.head = (buffer.head + 1) % buffer.size
             /\ buffer'.tail = (buffer.tail + 1) % buffer.size
             /\ buffer'.count = buffer.size]_vars

C25_Witness ==
    /\ buffer.size = MaxCap
    /\ buffer.count = buffer.size
    /\ Cardinality(overwritten) = 2
    /\ buffer.head = 2
    /\ buffer.tail = 2

\* C26: in every state every key of the aggregator's per-type map holds a
\* non-empty sequence of durations, so the count GetDBMetrics divides by is
\* never zero.
C26_DurationsNeverEmpty ==
    \A t \in DOMAIN dbMetrics.queryDurations : Len(dbMetrics.queryDurations[t]) >= 1

\* two durations recorded around a reset that landed between the Load and the
\* Store of the second
C26_Witness ==
    /\ \A p \in Producers : producer[p] = "idle"
    /\ dbMetrics.totalQueries = 0
    /\ "select" \in DOMAIN dbMetrics.queryDurations
    /\ Len(dbMetrics.queryDurations["select"]) = 2

(***************************************************************************)
(* Claims about the transactions                                           *)
(***************************************************************************)
\* the transactions begun by op whose call has returned or panicked
Finished(op) == {k \in 1..Len(txLog) : txLog[k].op = op /\ txLog[k].ret # ""}

\* C27: ExecTx calls Commit if and only if the callback returned nil; when
\* the callback returned an error or panicked the transaction is rolled back,
\* never committed, nothing of it is in the table, and the error (the panic)
\* reaches the caller. Every transaction ExecTx began is finished by exactly
\* one call, of Commit or of Rollback.
C27_CommitIffCallbackNil ==
    /\ \A k \in Finished("ExecTx") :
          LET e == txLog[k]
          IN /\ e.commitCalls = 1 <=> e.fn = "nil"
             /\ e.fn \in {"err", "panic"} =>
                   /\ e.rollbackCalls = 1
                   /\ e.persisted = 0
                   /\ e.ret = e.fn
             /\ e.commitCalls + e.rollbackCalls = 1
             /\ e.ret = "nil" => e.persisted = e.rowsIn
             /\ e.ret # "nil" => e.persisted = 0
    /\ (Len(txLog) >= 1 /\ txLog[Last].op = "ExecTx") =>
          IF txLog[Last].ret = ""
          THEN ~sqlTx.done /\ txLog[Last].commitCalls + txLog[Last].rollbackCalls = 0
          ELSE sqlTx.done

C27_Witness ==
    /\ Len(txLog) = 2
    /\ txLog[1].op = "ExecTx" /\ txLog[1].ret = "nil" /\ txLog[1].persisted = 1
    /\ txLog[2].op = "ExecTx" /\ txLog[2].ret = "panic" /\ txLog[2].rowsIn = 1
    /\ table = 1

\* C28: BatchInsert runs all its batches in one transaction; Commit is called
\* only if the INSERT of every batch succeeded; if a batch failed the
\* transaction is rolled back, none of its rows is in the table and an error
\* is returned; nil is returned only with all the rows in the table.
C28_BatchInsertAllOrNothing ==
    /\ \A k \in Finished("BatchInsert") :
          LET e == txLog[k]
          IN /\ e.commitCalls <= 1
             /\ e.commitCalls = 1 => (e.batches >= 1 /\ e.execsOk = e.batches)
             /\ e.execsOk < e.batches =>
                   /\ e.commitCalls = 0
                   /\ e.rollbackCalls = 1
                   /\ e.persisted = 0
                   /\ e.ret = "err"
             /\ e.ret = "nil" =>
                   (e.commitCalls = 1 /\ e.rollbackCalls = 0 /\ e.persisted = e.rowsIn)
             /\ e.ret # "nil" => (e.persisted = 0 /\ e.rollbackCalls = 1)
    /\ (Len(txLog) >= 1 /\ txLog[Last].op = "BatchInsert" /\ txLog[Last].ret # "") =>
          sqlTx.done

C28_Witness ==
    /\ Len(txLog) = 2
    /\ txLog[1].op = "BatchInsert" /\ txLog[1].ret = "nil" /\ txLog[1].persisted = MaxRows
    /\ txLog[2].op = "BatchInsert" /\ txLog[2].ret = "err"
    /\ txLog[2].batches = 2 /\ txLog[2].execsOk = 1 /\ txLog[2].rowsIn >= 1
    /\ table = MaxRows

\* a SetDBMetricsEnable(false) call made while the flag is on
DisableCall(s) == setter[s].pc # "idle" /\ ~setter[s].enable /\ setter[s].found

\* collectPoolStats goroutines that hold the mutex and have started but not
\* returned
Running == {g \in DOMAIN collector : collector[g].pc = "running"}
Spawned == {g \in DOMAIN collector : collector[g].pc = "spawned"}

\* C29: a SetDBMetricsEnable(false) call made while collection is enabled
\* always returns, it does not wait for the running collector; when it has
\* returned no collector runs and the snapshot is the zeroed one; a later
\* SetDBMetricsEnable(true) starts exactly one collector
C29_DisableAlwaysReturns ==
    /\ \A s \in Setters : DisableCall(s) ~> setter[s].pc = "idle"
    /\ [][\A s \in Setters :
             DisableCall(s) /\ setter'[s].pc = "idle"
                 => Running' = {} /\ poolStats' = "zero"]_vars
    /\ [][\A s \in Setters :
             /\ setter[s].pc = "lock" /\ setter[s].enable /\ ~poolStatsEnabled
             /\ setter'[s].pc = "locked"
             => Cardinality(Spawned' \ Spawned) = 1]_vars

\* C30: while the DB is open, that is before DB.Close() is called, the
\* keep-alive goroutine has not returned, and no collector has returned for
\* another reason than statistics being switched off
C30_TasksRunWhileOpen ==
    dbClose = "idle" =>
        /\ keepAlive # "exited"
        /\ \A g \in DOMAIN collector : collector[g].why # "ctx"

\* C31: for each shard hits + misses is the number of Get calls on the shard
\* that returned since the shard was last cleared, and a Get is about to count
\* a hit exactly when it returns found
C31_HitsPlusMissesCountGets ==
    /\ \A i \in DOMAIN shards : shards[i].hits + shards[i].misses = gets[i]
    /\ \A t \in Tasks : /\ task[t].pc = "hit" => task[t].found
                        /\ task[t].pc = "miss" => ~task[t].found

\* a shard on which one Get returned found and another returned not-found
C31_Witness ==
    \E i \in DOMAIN shards :
        /\ shards[i].hits >= 1
        /\ shards[i].misses >= 1
        /\ gets[i] = 2

\* the Close calls that returned what collectErrors gave them
Collected == {k \in Closers : closer[k].res.kind = "collected"}

\* C32: a Close that is signalled done before its timer returns the errors
\* buffered in al.errCh at that moment, joined, and nil exactly when none is
\* buffered; each of them is the sink's error for a record that process() handed
\* to the sink, or the report Handle made for a dropped record
C32_CloseReturnsBufferedErrors ==
    /\ [][\A k \in Closers :
             closer[k].pc = "wait" /\ closer'[k].pc = "returned"
             /\ closer'[k].res.kind # "timeout"
                 => closer'[k].res = [kind |-> "collected", errs |-> errCh]]_vars
    /\ [](\A k \in Collected : \A i \in 1..Len(closer[k].res.errs) :
             LET e == closer[k].res.errs[i]
             IN IF e = 0 THEN droppedRecs # {}
                ELSE \E j \in 1..Len(sunk) : sunk[j] = [rec |-> e, by |-> "process"])

\* a Close that waited and returned a joined error
C32_Witness ==
    \E k \in Collected : closer[k].res.errs # <<>>

\* C33: once a FindAll made with HasTotal(true) in force has succeeded, GetTotal
\* on that Table returns the number its Count query got; GetTotal returns 0
\* only if HasTotal(true) was not in force (or the count is 0)
C33_GetTotalAfterFindAll ==
    tblLog.got # -1 /\ tblLog.ok
        => /\ tblLog.asked => tblLog.got = tblLog.count
           /\ tblLog.got = 0 => ~tblLog.asked \/ tblLog.count = 0

\* C34: however Handle calls and Close interleave, no Handle call panics: none
\* sends on the closed al.ch or on the closed al.errCh
C34_HandleNeverPanics ==
    \A c \in Callers : caller[c].pc # "panicked"

\* a Handle call begins in this step
Begins(c) == caller'[c].rec # caller[c].rec

\* C35: the logger and the handler derived from it share one lifecycle: once a
\* Close on either has returned, a Handle on either returns the closed error
\* and a further Close on either does nothing and returns nil, and no Close
\* closes the shared channel a second time
C35_DerivedShareLifecycle ==
    /\ [](\A k \in Closers : /\ closer[k].pc # "panicked"
                             /\ closer[k].second
                                    => closer[k].pc = "returned" /\ closer[k].res.kind = "nil")
    /\ [][\A c \in Callers :
             Begins(c) /\ (\E k \in Closers : closer[k].pc = "returned")
                 => caller'[c].pc = "idle" /\ caller'[c].res = "closed"]_vars

\* C36: a record handed to the derived handler is written by the derived sink
C36_DerivedRecordsToDerivedSink ==
    \A j \in 1..Len(sunk) : sunk[j].rec \in via => SinkOf(sunk[j]) = "derived"

\* a Set, Delete or Clear holds the write lock of shard i
WriteLocked(i) ==
    \E t \in Tasks : shards[i].mu.writer = t /\ task[t].pc # "lockWait"

\* C37: while no Set, Delete or Clear holds a shard's write lock, every key of
\* the shard's LRU tier is in the shard's plain map with the same value, and
\* the LRU tier never holds more entries than its size
C37_LruWithinMap ==
    \A i \in DOMAIN shards :
        /\ Len(lruCaches[i]) <= LruSize
        /\ ~WriteLocked(i) =>
              \A j \in 1..Len(lruCaches[i]) :
                  /\ lruCaches[i][j].key \in DOMAIN shards[i].m
                  /\ shards[i].m[lruCaches[i][j].key] = lruCaches[i][j].value

\* a shard no writer holds, its LRU tier full and its plain map holding a key
\* more than the LRU tier
C37_Witness ==
    \E i \in DOMAIN shards :
        /\ ~WriteLocked(i)
        /\ Len(lruCaches[i]) = LruSize
        /\ Cardinality(DOMAIN shards[i].m) > LruSize

\* the sum over the operation types in types of the count GetDBMetrics reports
\* for the type
RECURSIVE CountSum(_, _)
CountSum(m, types) ==
    IF types = {} THEN 0
    ELSE LET qt == CHOOSE x \in types : TRUE
         IN Len(m.queryDurations[qt]) + CountSum(m, types \ {qt})

\* the ring is empty, the consumer is not applying a closure and no goroutine
\* is inside a recording method or ResetDBMetrics
Quiescent ==
    /\ buffer.count = 0
    /\ consumer.pc # "apply"
    /\ \A p \in Producers : producer[p] = "idle"

\* C38: whenever the pipeline is quiescent, total_queries is the sum of the
\* per-type counts, also after ResetDBMetrics calls that ran while the consumer
\* was at work
C38_TotalIsSumOfCounts ==
    Quiescent => dbMetrics.totalQueries = CountSum(dbMetrics, DOMAIN dbMetrics.queryDurations)

\* C39: however DB.Close calls follow each other or interleave, Stop and the
\* asyncLogger's Close are each called by at most one of them, no call panics
\* on closing a closed channel, and a call that begins after another has
\* returned returns nil
C39_ShutdownRunsOnce ==
    /\ Cardinality({k \in Closers : dbCloser[k].stop}) <= 1
    /\ Cardinality({k \in Closers : closer[k].pc # "idle"}) <= 1
    /\ \A k \in Closers : dbCloser[k].pc # "panicked"
    /\ \A k \in Closers : dbCloser[k].second /\ dbCloser[k].res # "none"
                              => dbCloser[k].res = "nil" /\ dbCloser[k].pc = "idle"

\* C40: in every pass of BatchInsert's loop that reaches tx.Exec, the number
\* of arguments bound is fieldCount times the number of records of the batch,
\* the number of '?' of the batch's statement; also in the second and later
\* passes
C40_ArgsMatchPlaceholders ==
    [][txCall.op = "BatchInsert" /\ txCall.pc = "batch"
          /\ txCall.data[txCall.i + 1] = txCall.fieldCount
       => txCall'.args = (Min(txCall.i + txCall.batchSize, Len(txCall.data)) - txCall.i)
                            * txCall.fieldCount]_vars

====
